---- MODULE Spec2Model ----
(***************************************************************************)
(* Duke Energy data collector (collector/src/duke.ts, index.ts,            *)
(* run-daily.ps1): the process of one scheduled run (main, the Duke        *)
(* constructor, fetch_once and the two utility pipelines) and the pure     *)
(* functions it is built from (decoders, storeUsageData,                   *)
(* exportForHomeAssistant); and the file server that serves the documents  *)
(* (server/src/server.ts).                                                 *)
(*                                                                         *)
(* Conventions of the model                                                *)
(*  - a JavaScript string that the code takes apart (a date label, a date  *)
(*    key) is a sequence of one-character strings: "3/5" is                *)
(*    <<"3","/","5">>;                                                     *)
(*  - a time value (Date.getTime()) is a one-element sequence <<t>>, t in  *)
(*    ticks since 1970-01-01 with TicksPerDay ticks in a day; the empty    *)
(*    sequence <<>> is NaN (an Invalid Date); the local time zone is UTC;  *)
(*  - a quantity (CCF, therms, kWh) is an integer number of thousandths;   *)
(*  - an optional value (null / undefined) is <<>>, a present one <<v>>.   *)
(***************************************************************************)
EXTENDS Integers, Sequences, FiniteSets, TLC

VARIABLES
    env,        \* process.env: EMAIL, PASSWORD, ACCOUNTNUM, GAS_METERNUM, ELECTRIC_METERNUM
    files,      \* the documents under ../data/gas and ../data/electric
    files0,     \* the documents as they were when the process started
    now,        \* the clock (new Date()), in ticks
    pc,         \* position of the process
    browser,    \* this.browser: "none" | "open" | "closed"
    login,      \* this.login(): "none" (not called) | "failed" (it threw) | "ok"
    portal,     \* the response body of the utility request in flight
    results,    \* fetch_once's results object
    stage,      \* per utility, the pipeline stages gone through in this run
    exitCode,   \* <<>> while the process runs, <<code>> once it has exited
    reply,      \* the file server's answer to the last request, with the request
    request,    \* the usage request last sent to the portal: ServiceType, StartDate, EndDate
    invocations \* the collector processes running at the same time on one data directory

vars == <<env, files, files0, now, pc, browser, login, portal, results, stage, exitCode, reply, request,
          invocations>>

----------------------------------------------------------------------------
(* Bounds of the model *)

\* ticks in a calendar day (the code's unit is the millisecond)
TicksPerDay == 2
\* longest series (Series1 with TickSeries, interval readings) in one response
MaxSeries == 2
\* most entries of a history file handed to the exporter
MaxEntries == 3

----------------------------------------------------------------------------
(* Strings *)

Digits == <<"0", "1", "2", "3", "4", "5", "6", "7", "8", "9">>

IsDigit(c) == \E i \in 1..10 : Digits[i] = c

DigitVal(c) == (CHOOSE i \in 1..10 : Digits[i] = c) - 1

IsNumeral(s) == Len(s) > 0 /\ \A i \in 1..Len(s) : IsDigit(s[i])

RECURSIVE StrToNum(_)
StrToNum(s) ==
    IF s = <<>> THEN 0
    ELSE 10 * StrToNum(SubSeq(s, 1, Len(s) - 1)) + DigitVal(s[Len(s)])

RECURSIVE NumToStr(_)
NumToStr(n) ==
    IF n < 10 THEN <<Digits[n + 1]>>
    ELSE NumToStr(n \div 10) \o <<Digits[(n % 10) + 1]>>

\* String.prototype.includes('/')
Includes(s, c) == \E i \in 1..Len(s) : s[i] = c

\* String.prototype.indexOf(c) (from 1) of a string that includes c
IndexOf(s, c) == CHOOSE k \in 1..Len(s) : s[k] = c /\ \A j \in 1..(k - 1) : s[j] # c

\* String.prototype.split(c): the parts between the separators
RECURSIVE Split(_, _)
SplitAt(s, c, i) == <<SubSeq(s, 1, i - 1)>> \o Split(SubSeq(s, i + 1, Len(s)), c)

Split(s, c) ==
    IF ~Includes(s, c) THEN <<s>>
    ELSE SplitAt(s, c, IndexOf(s, c))

\* String.prototype.padStart(2, '0')
PadStart2(s) ==
    IF Len(s) >= 2 THEN s
    ELSE IF Len(s) = 1 THEN <<"0">> \o s
    ELSE <<"0", "0">>

----------------------------------------------------------------------------
(* Dates (the JavaScript Date object, local time zone UTC) *)

\* days from 1970-01-01 to the civil date y-m-d, linear in d (a day past the
\* end of the month runs into the next month, as MakeDay does)
DaysFromCivil(y, m, d) ==
    LET yy  == IF m <= 2 THEN y - 1 ELSE y
        era == yy \div 400
        yoe == yy - era * 400
        mp  == IF m > 2 THEN m - 3 ELSE m + 9
        doy == (153 * mp + 2) \div 5 + d - 1
        doe == yoe * 365 + yoe \div 4 - yoe \div 100 + doy
    IN  era * 146097 + doe - 719468

\* the civil date of a day number
CivilFromDays(n) ==
    LET z   == n + 719468
        era == z \div 146097
        doe == z - era * 146097
        yoe == (doe - doe \div 1460 + doe \div 36524 - doe \div 146096) \div 365
        doy == doe - (365 * yoe + yoe \div 4 - yoe \div 100)
        mp  == (5 * doy + 2) \div 153
        d   == doy - (153 * mp + 2) \div 5 + 1
        m   == IF mp < 10 THEN mp + 3 ELSE mp - 9
        y   == yoe + era * 400 + (IF m <= 2 THEN 1 ELSE 0)
    IN  [y |-> y, m |-> m, d |-> d]

\* the tick of local midnight of y-m-d
Midnight(y, m, d) == DaysFromCivil(y, m, d) * TicksPerDay

\* Date.prototype.getFullYear of the instant t
GetFullYear(t) == CivilFromDays(t \div TicksPerDay).y

\* new Date("MM/DD/YYYY").getTime(): NaN unless three numerals with a month
\* 1..12 and a day 1..31
DateOfNumbers(month, day, year) ==
    IF month \in 1..12 /\ day \in 1..31 THEN <<Midnight(year, month, day)>> ELSE <<>>

DateOfParts(p) ==
    IF Len(p) = 3 /\ \A i \in 1..3 : IsNumeral(p[i])
    THEN DateOfNumbers(StrToNum(p[1]), StrToNum(p[2]), StrToNum(p[3]))
    ELSE <<>>

DateParse(s) == DateOfParts(Split(s, "/"))

\* date.toLocaleDateString('en-US', {month: '2-digit', day: '2-digit', year: 'numeric'})
FormatCivil(c) ==
    PadStart2(NumToStr(c.m)) \o <<"/">> \o PadStart2(NumToStr(c.d)) \o <<"/">> \o NumToStr(c.y)

ToLocaleDateString(t) == FormatCivil(CivilFromDays(t \div TicksPerDay))

\* d.setFullYear(d.getFullYear() - k): same month, day and time of day
CivilBack(c, k) == DaysFromCivil(c.y - k, c.m, c.d)

SetFullYearBack(t, k) ==
    CivilBack(CivilFromDays(t \div TicksPerDay), k) * TicksPerDay + (t % TicksPerDay)

\* d.setDate(d.getDate() - k): k days earlier, same time of day
SetDateBack(t, k) == t - k * TicksPerDay

\* Date.prototype.getDate of the instant t: the day of the month
GetDate(t) == CivilFromDays(t \div TicksPerDay).d

\* the first day of the month of a civil date, in days
FirstOfMonth(c) == DaysFromCivil(c.y, c.m, 1)

\* d.setDate(dayOfMonth): that day counted from the first of d's month (0 and
\* negative values reach into the months before), same time of day
SetDate(t, dayOfMonth) ==
    (FirstOfMonth(CivilFromDays(t \div TicksPerDay)) + dayOfMonth - 1) * TicksPerDay
        + (t % TicksPerDay)

\* a.getTime() - b.getTime() < 0 (false when either is NaN)
TimeLess(a, b) == a # <<>> /\ b # <<>> /\ a[1] < b[1]

\* new Date(x) >= limit (false when x is an Invalid Date)
TimeAtLeast(a, limit) == a # <<>> /\ a[1] >= limit

----------------------------------------------------------------------------
(* Array.prototype.sort with the comparator
     (a, b) => new Date(a.K).getTime() - new Date(b.K).getTime()
   The sort is the engine's stable bottom-up merge sort, which takes the
   right element before the left one only when comparator(right, left) < 0;
   a NaN result is not < 0.  The elements are tagged with their time value
   t == new Date(x.K).getTime().                                           *)

RECURSIVE Merge(_, _)
Merge(left, right) ==
    IF right = <<>> THEN left
    ELSE IF left = <<>> THEN right
    ELSE IF TimeLess(Head(right).t, Head(left).t)
         THEN <<Head(right)>> \o Merge(left, Tail(right))
         ELSE <<Head(left)>> \o Merge(Tail(left), right)

Min(a, b) == IF a < b THEN a ELSE b

RECURSIVE MergePass(_, _)
MergePass(src, width) ==
    IF src = <<>> THEN <<>>
    ELSE LET n == Len(src)
         IN  Merge(SubSeq(src, 1, Min(width, n)),
                   SubSeq(src, width + 1, Min(2 * width, n)))
                 \o MergePass(SubSeq(src, 2 * width + 1, n), width)

RECURSIVE MergeSort(_, _)
MergeSort(src, width) ==
    IF width >= Len(src) THEN src
    ELSE MergeSort(MergePass(src, width), 2 * width)

Untag(tagged) == [i \in 1..Len(tagged) |-> tagged[i].v]

\* processed_data.sort((a, b) => new Date(a.full_date) - new Date(b.full_date))
SortByFullDate(processed_data) ==
    Untag(MergeSort([i \in 1..Len(processed_data) |->
                        [t |-> DateParse(processed_data[i].full_date),
                         v |-> processed_data[i]]], 1))

\* historical_data.sort((a, b) => new Date(a.date) - new Date(b.date))
SortByDate(historical_data) ==
    Untag(MergeSort([i \in 1..Len(historical_data) |->
                        [t |-> DateParse(historical_data[i].date),
                         v |-> historical_data[i]]], 1))

----------------------------------------------------------------------------
(* ResponseDecoder: tabular JSON (gas and electric) and interval XML        *)
(* raw_data is the parsed JSON object:                                      *)
(*   [Series1, Series2, TickSeries, UnitOfMeasure], each <<>> when the      *)
(*   property is missing and <<value>> when it is there.                    *)

\* the M/D label of index i made a full date of the current year:
\* <<>> when the record is skipped, <<full_date>> otherwise
FullDateOf(month, day, current_year) ==
    IF month # <<>> /\ day # <<>>
    THEN <<PadStart2(month) \o <<"/">> \o PadStart2(day) \o <<"/">> \o NumToStr(current_year)>>
    ELSE <<>>

\* const [month, day] = date_label.split('/')
FullDateOfParts(parts, current_year) == FullDateOf(parts[1], parts[2], current_year)

FullDate(date_label, current_year) ==
    IF date_label # <<>> /\ Includes(date_label, "/")
    THEN FullDateOfParts(Split(date_label, "/"), current_year)
    ELSE <<>>

\* date_labels[i]: undefined (here the empty label) past the end of the array
LabelAt(date_labels, i) ==
    IF i <= Len(date_labels) THEN date_labels[i] ELSE <<>>

\* average_values && average_values[i] ? parseFloat(average_values[i]) : null
AverageAt(Series2, i) ==
    IF Series2 # <<>> /\ i <= Len(Series2[1])
       /\ Series2[1][i] # <<>> /\ Series2[1][i][1] # 0
    THEN Series2[1][i]
    ELSE <<>>

\* raw_data.UnitOfMeasure || dflt
UnitOr(raw_data, dflt) ==
    IF raw_data.UnitOfMeasure # <<>> THEN raw_data.UnitOfMeasure[1] ELSE dflt

\* what one turn of the loop of lines 629-660 pushes: nothing for a skipped label
GasRow(raw_data, i, t, date_label, full_date) ==
    IF full_date = <<>> THEN <<>>
    ELSE <<[date        |-> date_label,
            full_date   |-> full_date[1],
            usage_ccf   |-> raw_data.Series1[1][i],
            average_ccf |-> AverageAt(raw_data.Series2, i),
            unit        |-> UnitOr(raw_data, "CCF"),
            timestamp   |-> t]>>

GasRowAt(raw_data, i, t, date_label) ==
    GasRow(raw_data, i, t, date_label, FullDate(date_label, GetFullYear(t)))

\* the loop leaving at the first label it cannot parse (break for continue)
RECURSIVE GasRowsAbort(_, _, _)
GasRowsAbort(raw_data, i, t) ==
    IF i > Len(raw_data.Series1[1]) THEN <<>>
    ELSE IF GasRowAt(raw_data, i, t, LabelAt(raw_data.TickSeries[1], i)) = <<>> THEN <<>>
    ELSE GasRowAt(raw_data, i, t, LabelAt(raw_data.TickSeries[1], i))
             \o GasRowsAbort(raw_data, i + 1, t)

RECURSIVE GasRows(_, _, _)
GasRows(raw_data, i, t) ==
    IF i > Len(raw_data.Series1[1]) THEN <<>>
    ELSE GasRowAt(raw_data, i, t, LabelAt(raw_data.TickSeries[1], i))
             \o GasRows(raw_data, i + 1, t)

processGasData(raw_data, t) ==
    IF raw_data.Series1 = <<>> \/ raw_data.TickSeries = <<>> THEN <<>>
    ELSE SortByFullDate(GasRows(raw_data, 1, t))

\* what one turn of the loop of lines 536-565 pushes
ElectricRow(raw_data, i, t, date_label, full_date) ==
    IF full_date = <<>> THEN <<>>
    ELSE <<[date      |-> date_label,
            full_date |-> full_date[1],
            usage_kwh |-> raw_data.Series1[1][i],
            unit      |-> UnitOr(raw_data, "kWh"),
            timestamp |-> t]>>

ElectricRowAt(raw_data, i, t, date_label) ==
    ElectricRow(raw_data, i, t, date_label, FullDate(date_label, GetFullYear(t)))

RECURSIVE ElectricRows(_, _, _)
ElectricRows(raw_data, i, t) ==
    IF i > Len(raw_data.Series1[1]) THEN <<>>
    ELSE ElectricRowAt(raw_data, i, t, LabelAt(raw_data.TickSeries[1], i))
             \o ElectricRows(raw_data, i + 1, t)

processElectricJsonData(raw_data, t) ==
    IF raw_data.Series1 = <<>> \/ raw_data.TickSeries = <<>> THEN <<>>
    ELSE SortByFullDate(ElectricRows(raw_data, 1, t))

\* the interval readings of the XML body that pass the quality filter
\* (lines 491-499): [time, value] of the ACTUAL ones
TimeAndValue(kept) ==
    [i \in 1..Len(kept) |-> [time |-> kept[i].time, value |-> kept[i].value]]

\* the map of lines 491-499 without the test of the reading quality
ActualReadingsUnfiltered(intervalreading) == TimeAndValue(intervalreading)

ActualReadings(intervalreading) ==
    TimeAndValue(SelectSeq(intervalreading, LAMBDA r : r.quality = "ACTUAL"))

\* dateKey of a reading: the local calendar day of its start time
DateKey(reading) == ToLocaleDateString(reading.time)

\* Object.keys(dailyTotals): the date keys in the order of first insertion
\* a key added to the keys of an object unless it is one already
AddKey(keys, k) ==
    IF \E i \in 1..Len(keys) : keys[i] = k THEN keys ELSE Append(keys, k)

RECURSIVE DayKeys(_)
DayKeys(readings) ==
    IF readings = <<>> THEN <<>>
    ELSE AddKey(DayKeys(SubSeq(readings, 1, Len(readings) - 1)),
                DateKey(readings[Len(readings)]))

\* dailyTotals[dateKey].total, in thousandths of a kWh: the sum of
\* parseFloat(reading.value) / 1000 over the readings of that day
RECURSIVE DayTotal(_, _)
DayTotal(readings, dateKey) ==
    IF readings = <<>> THEN 0
    ELSE (IF DateKey(Head(readings)) = dateKey THEN Head(readings).value ELSE 0)
             + DayTotal(Tail(readings), dateKey)

DailyData(readings, keys, t) ==
    [i \in 1..Len(keys) |->
        [date      |-> keys[i],
         full_date |-> keys[i],
         usage_kwh |-> DayTotal(readings, keys[i]),
         unit      |-> "kWh",
         timestamp |-> t]]

groupElectricReadingsByDay(readings, t) ==
    SortByFullDate(DailyData(readings, DayKeys(readings), t))

----------------------------------------------------------------------------
(* HistoryReconciler: loadHistoricalData and storeUsageData                 *)
(* A document is [st, data]: st is "absent" (no file), "ok" (the JSON the   *)
(* collector wrote), "corrupt" (a file JSON.parse rejects) or "unreadable"  *)
(* (a file holding the records of data on which readFileSync throws at      *)
(* load time, or whose text JSON.parse rejects after them).                 *)

\* JSON.parse(fs.readFileSync(filename)), [] when either throws
loadHistoricalData(doc) == IF doc.st = "ok" THEN doc.data ELSE <<>>

\* usage_therms.toFixed(3) of usage_ccf * 1.037, in thousandths
ToTherms(usage_ccf) == (usage_ccf * 1037 + 500) \div 1000

\* the record storeUsageData builds from one reading
NewRecord(reading, serviceType, t) ==
    IF serviceType = "GAS"
    THEN [date         |-> reading.full_date,
          date_label   |-> reading.date,
          usage_ccf    |-> reading.usage_ccf,
          usage_therms |-> ToTherms(reading.usage_ccf),
          average_ccf  |-> reading.average_ccf,
          unit         |-> reading.unit,
          timestamp    |-> reading.timestamp,
          created_at   |-> t]
    ELSE [date         |-> reading.full_date,
          date_label   |-> reading.date,
          usage_kwh    |-> reading.usage_kwh,
          start_time   |-> <<>>,
          end_time     |-> <<>>,
          unit         |-> "kWh",
          timestamp    |-> reading.timestamp,
          created_at   |-> t]

\* a findIndex that never finds the date
FindIndexNone(historical_data, dateKey) == 0

\* historical_data.findIndex(record => record.date === dateKey): 0 for -1
FindIndex(historical_data, dateKey) ==
    IF \E i \in 1..Len(historical_data) : historical_data[i].date = dateKey
    THEN CHOOSE i \in 1..Len(historical_data) :
             /\ historical_data[i].date = dateKey
             /\ \A j \in 1..(i - 1) : historical_data[j].date # dateKey
    ELSE 0

\* the loop's turn when an existing record is kept instead of replaced
PutAtKeepOld(historical_data, existing_index, new_record) ==
    IF existing_index > 0
    THEN historical_data
    ELSE Append(historical_data, new_record)

\* one turn of the loop of lines 96-136: replace the record of that date or push
PutAt(historical_data, existing_index, new_record) ==
    IF existing_index > 0
    THEN [historical_data EXCEPT ![existing_index] = new_record]
    ELSE Append(historical_data, new_record)

Upsert(historical_data, reading, serviceType, t) ==
    PutAt(historical_data, FindIndex(historical_data, reading.full_date),
          NewRecord(reading, serviceType, t))

RECURSIVE UpsertAll(_, _, _, _)
UpsertAll(historical_data, usage_data, serviceType, t) ==
    IF usage_data = <<>> THEN historical_data
    ELSE UpsertAll(Upsert(historical_data, Head(usage_data), serviceType, t),
                   Tail(usage_data), serviceType, t)

\* two_years_ago: now with the year set two back
TwoYearsAgo(t) == SetFullYearBack(t, 2)

\* historical_data.filter(record => new Date(record.date) >= two_years_ago)
Retain(historical_data, t) ==
    SelectSeq(historical_data, LAMBDA record :
                  TimeAtLeast(DateParse(record.date), TwoYearsAgo(t)))

\* the array storeUsageData writes for a non-empty usage_data
Reconciled(historical_data, usage_data, serviceType, t) ==
    Retain(SortByDate(UpsertAll(historical_data, usage_data, serviceType, t)), t)

\* storeUsageData as a function of the history document
storeUsageData(doc, usage_data, serviceType, t) ==
    IF usage_data = <<>> THEN doc
    ELSE [st   |-> "ok",
          data |-> Reconciled(loadHistoricalData(doc), usage_data, serviceType, t)]

----------------------------------------------------------------------------
(* ViewExporter: exportForHomeAssistant and createMonthlySummary            *)

\* `${date.getFullYear()}-${(date.getMonth() + 1).toString().padStart(2, '0')}`
MonthKeyOf(c) == NumToStr(c.y) \o <<"-">> \o PadStart2(NumToStr(c.m))

MonthKey(record) == MonthKeyOf(CivilFromDays(DateParse(record.date)[1] \div TicksPerDay))

\* Object.keys(monthly_data): the month keys in the order of first insertion
RECURSIVE MonthKeys(_)
MonthKeys(historical_data) ==
    IF historical_data = <<>> THEN <<>>
    ELSE AddKey(MonthKeys(SubSeq(historical_data, 1, Len(historical_data) - 1)),
                MonthKey(historical_data[Len(historical_data)]))

\* the records of one month
OfMonth(historical_data, month_key) ==
    SelectSeq(historical_data, LAMBDA record : MonthKey(record) = month_key)

RECURSIVE SumCcf(_)
SumCcf(records) ==
    IF records = <<>> THEN 0 ELSE Head(records).usage_ccf + SumCcf(Tail(records))

RECURSIVE SumTherms(_)
SumTherms(records) ==
    IF records = <<>> THEN 0 ELSE Head(records).usage_therms + SumTherms(Tail(records))

RECURSIVE SumKwh(_)
SumKwh(records) ==
    IF records = <<>> THEN 0 ELSE Head(records).usage_kwh + SumKwh(Tail(records))

\* parseFloat((total / days).toFixed(3)), in thousandths
DailyAverage(total, days) == (2 * total + days) \div (2 * days)

\* the rollup of one month
GasRollup(month_key, total_ccf, total_therms, days) ==
    [month                |-> month_key,
     total_ccf            |-> total_ccf,
     total_therms         |-> total_therms,
     days                 |-> days,
     average_daily_ccf    |-> DailyAverage(total_ccf, days),
     average_daily_therms |-> DailyAverage(total_therms, days)]

ElectricRollup(month_key, total_kwh, days) ==
    [month             |-> month_key,
     total_kwh         |-> total_kwh,
     days              |-> days,
     average_daily_kwh |-> DailyAverage(total_kwh, days)]

RollupOf(records, month_key, serviceType) ==
    IF serviceType = "GAS"
    THEN GasRollup(month_key, SumCcf(records), SumTherms(records), Len(records))
    ELSE ElectricRollup(month_key, SumKwh(records), Len(records))

Rollup(historical_data, month_key, serviceType) ==
    RollupOf(OfMonth(historical_data, month_key), month_key, serviceType)

\* a.localeCompare(b) < 0 for two keys over the characters "-0123456789"
CharRank(c) == IF c = "-" THEN 0 ELSE DigitVal(c) + 1

RECURSIVE StrLess(_, _)
StrLess(a, b) ==
    IF b = <<>> THEN FALSE
    ELSE IF a = <<>> THEN TRUE
    ELSE IF Head(a) # Head(b) THEN CharRank(Head(a)) < CharRank(Head(b))
    ELSE StrLess(Tail(a), Tail(b))

\* insertion into a list sorted by month, latest month first
RECURSIVE InsertByMonthDescending(_, _)
InsertByMonthDescending(sorted, x) ==
    IF sorted = <<>> THEN <<x>>
    ELSE IF StrLess(Head(sorted).month, x.month) THEN <<x>> \o sorted
    ELSE <<Head(sorted)>> \o InsertByMonthDescending(Tail(sorted), x)

\* insertion of one rollup into a list sorted by month (stable)
RECURSIVE InsertByMonth(_, _)
InsertByMonth(sorted, x) ==
    IF sorted = <<>> THEN <<x>>
    ELSE IF StrLess(x.month, Head(sorted).month) THEN <<x>> \o sorted
    ELSE <<Head(sorted)>> \o InsertByMonth(Tail(sorted), x)

RECURSIVE SortByMonth(_)
SortByMonth(rollups) ==
    IF rollups = <<>> THEN <<>>
    ELSE InsertByMonth(SortByMonth(SubSeq(rollups, 1, Len(rollups) - 1)),
                       rollups[Len(rollups)])

Rollups(historical_data, keys, serviceType) ==
    [i \in 1..Len(keys) |-> Rollup(historical_data, keys[i], serviceType)]

createMonthlySummary(historical_data, serviceType) ==
    SortByMonth(Rollups(historical_data, MonthKeys(historical_data), serviceType))

\* historical_data[historical_data.length - 1]
Latest(historical_data) == historical_data[Len(historical_data)]

\* thirty_days_ago: now with the day of the month set 30 back
ThirtyDaysAgo(t) == SetDateBack(t, 30)

\* historical_data.filter(record => new Date(record.date) >= thirty_days_ago)
Recent(historical_data, t) ==
    SelectSeq(historical_data, LAMBDA record :
                  TimeAtLeast(DateParse(record.date), ThirtyDaysAgo(t)))

\* parseFloat((quantity * rate).toFixed(2)), in hundredths, for a rate given
\* in ten-thousandths (0.5685 for gas, 0.0929 for electric)
CostEstimate(quantity, rate) == (quantity * rate + 50000) \div 100000

EnergyStats(historical_data, serviceType) ==
    [i \in 1..Len(historical_data) |->
        IF serviceType = "GAS"
        THEN [date          |-> historical_data[i].date,
              ccf           |-> historical_data[i].usage_ccf,
              therms        |-> historical_data[i].usage_therms,
              cost_estimate |-> CostEstimate(historical_data[i].usage_ccf, 5685)]
        ELSE [date          |-> historical_data[i].date,
              kwh           |-> historical_data[i].usage_kwh,
              cost_estimate |-> CostEstimate(historical_data[i].usage_kwh, 929)]]

\* a document the collector wrote
Doc(data) == [st |-> "ok", data |-> data]

\* the views in the order exportForHomeAssistant writes them
ViewNames == <<"latest", "recent", "monthly", "stats">>

\* what exportForHomeAssistant computes for each view
ViewData(name, historical_data, serviceType, t) ==
    CASE name = "latest"  -> <<Latest(historical_data)>>
      [] name = "recent"  -> Recent(historical_data, t)
      [] name = "monthly" -> createMonthlySummary(historical_data, serviceType)
      [] name = "stats"   -> EnergyStats(historical_data, serviceType)

\* the number of views written before fs.writeFileSync throws: `fault` names
\* the document whose write throws in this step ("none": no write throws)
ViewsWritten(fault) ==
    IF \E k \in 1..Len(ViewNames) : ViewNames[k] = fault
    THEN (CHOOSE k \in 1..Len(ViewNames) : ViewNames[k] = fault) - 1
    ELSE Len(ViewNames)

\* the writes of lines 161-192 without the return of lines 156-159
ExportViewsUnguarded(docs, historical_data, serviceType, t, n) ==
    [docs   |-> [name \in DOMAIN docs |->
                   IF \E k \in 1..n : ViewNames[k] = name
                   THEN Doc(IF historical_data = <<>> THEN <<>>
                            ELSE ViewData(name, historical_data, serviceType, t))
                   ELSE docs[name]],
     thrown |-> n < Len(ViewNames)]

\* the writes of lines 161-192, up to the one that throws
ExportViews(docs, historical_data, serviceType, t, n) ==
    IF historical_data = <<>>
    THEN [docs |-> docs, thrown |-> FALSE]
    ELSE [docs   |-> [name \in DOMAIN docs |->
                        IF \E k \in 1..n : ViewNames[k] = name
                        THEN Doc(ViewData(name, historical_data, serviceType, t))
                        ELSE docs[name]],
          thrown |-> n < Len(ViewNames)]

\* exportForHomeAssistant on the documents of one utility:
\* [docs: the documents afterwards, thrown: whether it threw]
exportForHomeAssistant(docs, serviceType, t, fault) ==
    ExportViews(docs, loadHistoricalData(docs.history), serviceType, t, ViewsWritten(fault))

----------------------------------------------------------------------------
(* The utility pipelines: the synchronous part of read_gas_api and          *)
(* read_electric_api that follows `await api_page.content()`.               *)
(* A response body is [json, raw_data, xml, intervalreading]:               *)
(*   json  "none": /\{.*\}/s finds no match; "bad": JSON.parse throws on    *)
(*         the match; "ok": the match parses to raw_data;                   *)
(*   xml   whether the body holds the interval block the XML path reads,    *)
(*         with the readings intervalreading.                               *)
(* The result is [docs, thrown, trace, data_points]: the utility's          *)
(* documents afterwards, whether the function threw, the stages it went     *)
(* through and the length of the array it returned.                         *)

Threw(docs, trace) ==
    [docs |-> docs, thrown |-> TRUE, data_points |-> 0, trace |-> trace \o <<"Failed">>]

Returned(docs, usage_data, trace) ==
    [docs |-> docs, thrown |-> FALSE, data_points |-> Len(usage_data),
     trace |-> trace \o <<"Exported">>]

\* this.storeUsageData(usage_data, serviceType) on the documents
Stored(docs, usage_data, serviceType, t) ==
    [docs EXCEPT !.history = storeUsageData(docs.history, usage_data, serviceType, t)]

AfterExport(exported, usage_data, trace) ==
    IF exported.thrown
    THEN Threw(exported.docs, trace)
    ELSE Returned(exported.docs, usage_data, trace)

\* "Store and export" (lines 381-383, 471-473, 509-511) after the raw write
StoreAndExport(docs, usage_data, serviceType, t, fault, trace) ==
    IF usage_data # <<>> /\ fault = "history"
    THEN Threw(docs, trace \o <<"Reconciling">>)
    ELSE AfterExport(exportForHomeAssistant(Stored(docs, usage_data, serviceType, t),
                                            serviceType, t, fault),
                     usage_data, trace \o <<"Reconciling", "Exporting">>)

\* the decoder of the JSON path of a utility
processJsonData(raw_data, serviceType, t) ==
    IF serviceType = "GAS"
    THEN processGasData(raw_data, t)
    ELSE processElectricJsonData(raw_data, t)

\* lines 366-386 of read_gas_api, and the try block 461-477 of read_electric_api
JsonPath(docs, serviceType, body, t, fault) ==
    IF body.json # "ok" \/ fault = "raw"
    THEN Threw(docs, <<"Decoding">>)
    ELSE StoreAndExport([docs EXCEPT !.raw = Doc(body)],
                        processJsonData(body.raw_data, serviceType, t),
                        serviceType, t, fault, <<"Decoding", "Normalizing">>)

\* lines 483-514 of read_electric_api
XmlPath(docs, body, t, fault, trace) ==
    IF ~body.xml \/ fault = "raw"
    THEN Threw(docs, trace \o <<"Decoding">>)
    ELSE StoreAndExport([docs EXCEPT !.raw = Doc(body)],
                        groupElectricReadingsByDay(ActualReadings(body.intervalreading), t),
                        "ELECTRIC", t, fault, trace \o <<"Decoding", "Normalizing">>)

\* drop the closing "Failed" of a trace the code recovers from
Recovered(trace) == SubSeq(trace, 1, Len(trace) - 1)

\* read_electric_api without the XML path: the outcome of the JSON path
XmlFallbackNone(viaJson, docs, body, t, fault) ==
    IF body.json = "none" THEN Threw(docs, <<"Decoding">>) ELSE viaJson

\* the catch of line 478: whatever the try block threw, the XML path runs
\* on the same body
XmlFallback(viaJson, docs, body, t, fault) ==
    IF body.json = "none" THEN XmlPath(docs, body, t, fault, <<>>)
    ELSE IF ~viaJson.thrown THEN viaJson
    ELSE XmlPath(viaJson.docs, body, t, fault, Recovered(viaJson.trace))

read_gas_api(docs, body, t, fault) == JsonPath(docs, "GAS", body, t, fault)

read_electric_api(docs, body, t, fault) ==
    XmlFallback(JsonPath(docs, "ELECTRIC", body, t, fault), docs, body, t, fault)

\* the pipeline of one utility
read_api(serviceType, docs, body, t, fault) ==
    IF serviceType = "GAS"
    THEN read_gas_api(docs, body, t, fault)
    ELSE read_electric_api(docs, body, t, fault)

----------------------------------------------------------------------------
(* Configuration: process.env.  A variable is the string it holds, <<>>     *)
(* when it is not set.                                                      *)

\* String.prototype.trim on a value made of spaces and other characters
Trim(s) == SelectSeq(s, LAMBDA c : c # " ")

\* JavaScript truthiness of a string (or of undefined)
Truthy(s) == s # <<>>

valid_config ==
    LET hasRequired == Truthy(env.EMAIL) /\ Truthy(env.PASSWORD) /\ Truthy(env.ACCOUNTNUM)
        hasGas      == Truthy(env.GAS_METERNUM) /\ Truthy(Trim(env.GAS_METERNUM))
        hasElectric == Truthy(env.ELECTRIC_METERNUM) /\ Truthy(Trim(env.ELECTRIC_METERNUM))
    IN  hasRequired /\ (hasGas \/ hasElectric)

\* the test fetch_once and initHistoryFiles make: if (process.env.GAS_METERNUM)
Configured(serviceType) ==
    IF serviceType = "GAS" THEN Truthy(env.GAS_METERNUM) ELSE Truthy(env.ELECTRIC_METERNUM)

\* serviceType.toLowerCase(): the directory and the key of results
Prefix(serviceType) == IF serviceType = "GAS" THEN "gas" ELSE "electric"

\* the serviceType of a directory
ServiceOf(p) == IF p = "gas" THEN "GAS" ELSE "ELECTRIC"

\* initHistoryFiles without the fs.existsSync test: every configured
\* utility's history file is written as an empty array
initHistoryFilesUnchecked(fs) ==
    [p \in DOMAIN fs |->
        IF Configured(ServiceOf(p))
        THEN [fs[p] EXCEPT !.history = Doc(<<>>)]
        ELSE fs[p]]

\* initHistoryFiles: an empty array where a configured utility has no history file
initHistoryFiles(fs) ==
    [p \in DOMAIN fs |->
        IF Configured(ServiceOf(p)) /\ fs[p].history.st = "absent"
        THEN [fs[p] EXCEPT !.history = Doc(<<>>)]
        ELSE fs[p]]

----------------------------------------------------------------------------
(* Inputs: the environment, the portal's responses, the documents on disk   *)

Unset == <<>>
Blank == <<" ">>
Value == <<"x">>

Envs ==
    [EMAIL : {Unset, Value}, PASSWORD : {Unset, Value}, ACCOUNTNUM : {Unset, Value},
     GAS_METERNUM : {Unset, Blank, Value}, ELECTRIC_METERNUM : {Unset, Blank, Value}]

NoRaw == [Series1 |-> <<>>, Series2 |-> <<>>, TickSeries |-> <<>>, UnitOfMeasure |-> <<>>]

\* a body with neither a JSON object nor an interval block (an error page)
NoBody == [json |-> "none", raw_data |-> NoRaw, xml |-> FALSE, intervalreading |-> <<>>]

\* a body whose braces do not parse as JSON
BadJsonBody == [NoBody EXCEPT !.json = "bad"]

\* a JSON body with the usage series, the averages and the tick labels
JsonBody(Series1, Series2, TickSeries) ==
    [NoBody EXCEPT !.json = "ok",
                   !.raw_data = [Series1 |-> <<Series1>>, Series2 |-> Series2,
                                 TickSeries |-> <<TickSeries>>, UnitOfMeasure |-> <<>>]]

\* a JSON body without the series (the portal has no data)
EmptyJsonBody == [NoBody EXCEPT !.json = "ok"]

\* an interval-XML body
XmlBody(intervalreading) ==
    [NoBody EXCEPT !.xml = TRUE, !.intervalreading = intervalreading]

AbsentDoc == [st |-> "absent", data |-> <<>>]

\* the data directory of one utility before the first run
FreshDocs ==
    [raw |-> [st |-> "absent", data |-> NoBody], history |-> AbsentDoc,
     latest |-> AbsentDoc, recent |-> AbsentDoc, monthly |-> AbsentDoc, stats |-> AbsentDoc]

\* the documents whose write may throw in one step
Faults == {"none", "raw", "history", "latest", "recent", "monthly", "stats"}

\* the time of the run, and of the run of the day before
RunTime == Midnight(2025, 3, 10) + 1
DayBefore == SetDateBack(RunTime, 1)

\* the responses of the portal in a run
RunBodies ==
    { NoBody, BadJsonBody, EmptyJsonBody,
      JsonBody(<<2000>>, <<<<<<1500>>>>>>, <<<<"3", "/", "9">>>>),
      XmlBody(<<[time |-> Midnight(2025, 3, 8) + 1, value |-> 700, quality |-> "ACTUAL"]>>),
      [XmlBody(<<[time |-> Midnight(2025, 3, 8), value |-> 450, quality |-> "ACTUAL"]>>)
          EXCEPT !.json = "bad"] }

\* the documents an earlier run left: the day before, a JSON response for 3/8
EarlierBody == JsonBody(<<4000>>, <<>>, <<<<"3", "/", "8">>>>)

EarlierFiles ==
    [p \in {"gas", "electric"} |->
        read_api(ServiceOf(p), FreshDocs, EarlierBody, DayBefore, "none").docs]

FreshFiles == [gas |-> FreshDocs, electric |-> FreshDocs]

NoResult == [success |-> FALSE, error |-> <<>>, data_points |-> 0]

\* no second collector process: the run is the one of pc
NoInvocations == <<>>

\* no usage request has been sent
NoRequest == [ServiceType |-> "", StartDate |-> <<>>, EndDate |-> <<>>]

\* the file server has answered no request
NoReply == [type |-> "", format |-> <<>>, code |-> 0, data |-> <<>>, available_files |-> <<>>]

----------------------------------------------------------------------------
(* The process: main (index.ts) and Duke.fetch_once                         *)

Init ==
    /\ env \in Envs
    /\ files \in {FreshFiles, EarlierFiles}
    /\ files0 = files
    /\ now = RunTime
    /\ pc = "main"
    /\ browser = "none"
    /\ login = "none"
    /\ portal = NoBody
    /\ results = [gas |-> NoResult, electric |-> NoResult]
    /\ stage = [gas |-> <<>>, electric |-> <<>>]
    /\ exitCode = <<>>
    /\ reply = NoReply
    /\ request = NoRequest
    /\ invocations = NoInvocations

\* process.exit(code): the process ends there; no finally block runs
Exit(code) ==
    /\ pc' = "exited"
    /\ exitCode' = <<code>>

\* new Duke({db_store}): the constructor returns early on an invalid
\* configuration, otherwise creates the missing history files
Construct ==
    /\ pc = "main"
    /\ files' = IF valid_config THEN initHistoryFiles(files) ELSE files
    /\ pc' = "fetch_once"
    /\ UNCHANGED <<invocations, request, reply, env, files0, now, browser, login, portal, results, stage, exitCode>>

\* await this.init(): puppeteer.launch resolves, or rejects into the catch
InitBrowser ==
    /\ pc = "fetch_once"
    /\ \/ /\ browser' = "open"
          /\ pc' = "login"
          /\ UNCHANGED exitCode
       \/ /\ Exit(1)
          /\ UNCHANGED browser
    /\ UNCHANGED <<invocations, request, reply, env, files, files0, now, login, portal, results, stage>>

\* a login whose error is caught and logged like the error of a utility:
\* fetch_once goes on to the utilities
LoginCaught ==
    /\ pc = "login"
    /\ \/ /\ Truthy(env.EMAIL) /\ Truthy(env.PASSWORD)
          /\ login' = "ok"
       \/ login' = "failed"
    /\ pc' = "gas"
    /\ UNCHANGED <<invocations, request, reply, env, files, files0, now, browser, portal, results, stage, exitCode>>

\* await this.login(): page.type needs the e-mail and the password; a timeout
\* or a thrown error reaches the catch of fetch_once
Login ==
    /\ pc = "login"
    /\ \/ /\ Truthy(env.EMAIL) /\ Truthy(env.PASSWORD)
          /\ login' = "ok"
          /\ pc' = "gas"
          /\ UNCHANGED exitCode
       \/ /\ login' = "failed"
          /\ Exit(1)
    /\ UNCHANGED <<invocations, request, reply, env, files, files0, now, browser, portal, results, stage>>

\* the pc while the response of a utility is in flight
Response(serviceType) == IF serviceType = "GAS" THEN "gas_response" ELSE "electric_response"

\* the pc after the pipeline of a utility
After(serviceType) == IF serviceType = "GAS" THEN "electric" ELSE "summary"

\* the else branches of lines 707 and 723
Skip(serviceType) ==
    /\ pc = Prefix(serviceType)
    /\ ~Configured(serviceType)
    /\ pc' = After(serviceType)
    /\ UNCHANGED <<invocations, request, reply, env, files, files0, now, browser, login, portal, results, stage, exitCode>>

\* the awaits of read_*_api up to api_page.content(): the request throws
\* (caught at lines 703 / 719), or the portal's body arrives
Fetch(serviceType) ==
    /\ pc = Prefix(serviceType)
    /\ Configured(serviceType)
    /\ \/ /\ results' = [results EXCEPT ![Prefix(serviceType)].error = <<"Error">>]
          /\ stage' = [stage EXCEPT ![Prefix(serviceType)] = <<"Fetching", "Failed">>]
          /\ pc' = After(serviceType)
          /\ UNCHANGED portal
       \/ /\ \E body \in RunBodies : portal' = body
          /\ stage' = [stage EXCEPT ![Prefix(serviceType)] = <<"Fetching">>]
          /\ pc' = Response(serviceType)
          /\ UNCHANGED results
    /\ UNCHANGED <<invocations, request, reply, env, files, files0, now, browser, login, exitCode>>

\* what the try / catch of lines 697-706 and 713-722 records
Recorded(r) ==
    IF r.thrown
    THEN [success |-> FALSE, error |-> <<"Error">>, data_points |-> 0]
    ELSE [success |-> TRUE, error |-> <<>>, data_points |-> r.data_points]

\* a pipeline whose error is not caught around the call: it reaches the
\* catch of fetch_once, which exits
EndedUncaught(serviceType, r) ==
    /\ files' = [files EXCEPT ![Prefix(serviceType)] = r.docs]
    /\ stage' = [stage EXCEPT ![Prefix(serviceType)] = @ \o r.trace]
    /\ IF r.thrown
       THEN Exit(1) /\ UNCHANGED results
       ELSE /\ results' = [results EXCEPT ![Prefix(serviceType)] = Recorded(r)]
            /\ pc' = After(serviceType)
            /\ UNCHANGED exitCode

\* a pipeline whose documents all go to the gas directory, whatever the utility
EndedInGasDirectory(serviceType, r) ==
    /\ files' = [files EXCEPT !.gas = r.docs]
    /\ results' = [results EXCEPT ![Prefix(serviceType)] = Recorded(r)]
    /\ stage' = [stage EXCEPT ![Prefix(serviceType)] = @ \o r.trace]
    /\ pc' = After(serviceType)
    /\ UNCHANGED exitCode

\* a pipeline that ended with r: its writes stay, the try / catch records
\* the outcome and fetch_once goes on
Ended(serviceType, r) ==
    /\ files' = [files EXCEPT ![Prefix(serviceType)] = r.docs]
    /\ results' = [results EXCEPT ![Prefix(serviceType)] = Recorded(r)]
    /\ stage' = [stage EXCEPT ![Prefix(serviceType)] = @ \o r.trace]
    /\ pc' = After(serviceType)
    /\ UNCHANGED exitCode

\* the rest of read_*_api, and the try / catch around it in fetch_once
Process(serviceType) ==
    /\ pc = Response(serviceType)
    /\ \E fault \in Faults :
          Ended(serviceType,
                read_api(serviceType, files[Prefix(serviceType)], portal, now, fault))
    /\ portal' = NoBody
    /\ UNCHANGED <<invocations, request, reply, env, files0, now, browser, login>>

\* lines 745-750: process.exit(1) when nothing succeeded, else on to finally
Summary ==
    /\ pc = "summary"
    /\ IF results.gas.success \/ results.electric.success
       THEN pc' = "finally" /\ UNCHANGED exitCode
       ELSE Exit(1)
    /\ UNCHANGED <<invocations, request, reply, env, files, files0, now, browser, login, portal, results, stage>>

\* the finally block: close the browser (browser.close() resolves),
\* process.exit(0)
Finally ==
    /\ pc = "finally"
    /\ browser' = IF browser = "open" THEN "closed" ELSE browser
    /\ Exit(0)
    /\ UNCHANGED <<invocations, request, reply, env, files, files0, now, login, portal, results, stage>>

Next ==
    \/ Construct
    \/ InitBrowser
    \/ Login
    \/ \E serviceType \in {"GAS", "ELECTRIC"} : Skip(serviceType)
    \/ \E serviceType \in {"GAS", "ELECTRIC"} : Fetch(serviceType)
    \/ \E serviceType \in {"GAS", "ELECTRIC"} : Process(serviceType)
    \/ Summary
    \/ Finally

Spec == Init /\ [][Next]_vars

----------------------------------------------------------------------------
(* The history store over successive scheduled runs (StoreSpec): the        *)
(* history file starts as the empty array the constructor wrote; each run   *)
(* is reduced to the pipeline of the one configured utility, from the body  *)
(* the portal answers with to the end of read_*_api; run-daily.ps1 starts   *)
(* one run at each time of the clock.                                       *)

\* one utility configured, as valid_config accepts
StoreEnvs ==
    { [EMAIL |-> Value, PASSWORD |-> Value, ACCOUNTNUM |-> Value,
       GAS_METERNUM |-> Value, ELECTRIC_METERNUM |-> Unset],
      [EMAIL |-> Value, PASSWORD |-> Value, ACCOUNTNUM |-> Value,
       GAS_METERNUM |-> Unset, ELECTRIC_METERNUM |-> Value] }

\* the times of the runs: two days in a row, and a day two years later
Clock == <<RunTime, RunTime + TicksPerDay, Midnight(2027, 3, 6) + 1>>

\* the sequences over S of length at most n
SeqsUpTo(S, n) == UNION { [1..k -> S] : k \in 0..n }

\* one position of the portal's series: the tick label, the usage (Series1)
\* and the average (Series2, null where there is none).  "13/45" has a slash
\* and is no calendar date.
Points ==
    { [label |-> <<"3", "/", "5">>, usage |-> 2000, average |-> <<>>],
      [label |-> <<"3", "/", "5">>, usage |-> 3000, average |-> <<1500>>],
      [label |-> <<"3", "/", "7">>, usage |-> 2000, average |-> <<>>],
      [label |-> <<"3", "/", "9">>, usage |-> 2000, average |-> <<1500>>],
      [label |-> <<"1", "3", "/", "4", "5">>, usage |-> 2000, average |-> <<>>] }

\* the JSON body whose series hold the points
BodyOfPoints(points) ==
    JsonBody([i \in 1..Len(points) |-> points[i].usage],
             <<[i \in 1..Len(points) |-> points[i].average]>>,
             [i \in 1..Len(points) |-> points[i].label])

\* one espi:intervalreading of the XML response
Readings ==
    { [time |-> Midnight(2025, 3, 5), value |-> 700, quality |-> "ACTUAL"],
      [time |-> Midnight(2025, 3, 5) + 1, value |-> 300, quality |-> "ACTUAL"],
      [time |-> Midnight(2025, 3, 7), value |-> 500, quality |-> "ACTUAL"] }

\* the bodies the portal answers with in the runs of 2025
FirstBodies(serviceType) ==
    { BodyOfPoints(points) : points \in SeqsUpTo(Points, MaxSeries) }
        \cup {EmptyJsonBody}
        \cup (IF serviceType = "ELECTRIC"
              THEN { XmlBody(intervalreading) :
                         intervalreading \in SeqsUpTo(Readings, MaxSeries) }
              ELSE {})

\* the bodies the portal answers with two years later
LaterBodies ==
    { EmptyJsonBody,
      BodyOfPoints(<<[label |-> <<"3", "/", "5">>, usage |-> 2000, average |-> <<>>]>>) }

StoreBodies(serviceType, t) ==
    IF t < Clock[Len(Clock)] THEN FirstBodies(serviceType) ELSE LaterBodies

\* the usage_data read_*_api hands to storeUsageData for a body
Decoded(serviceType, body, t) ==
    IF body.json = "ok" THEN processJsonData(body.raw_data, serviceType, t)
    ELSE IF serviceType = "ELECTRIC" /\ body.xml
         THEN groupElectricReadingsByDay(ActualReadings(body.intervalreading), t)
         ELSE <<>>

StoreInit ==
    /\ env \in StoreEnvs
    /\ files = initHistoryFiles(FreshFiles)
    /\ files0 = files
    /\ now = Clock[1]
    /\ pc = "scheduled"
    /\ browser = "none"
    /\ login = "none"
    /\ portal = NoBody
    /\ results = [gas |-> NoResult, electric |-> NoResult]
    /\ stage = [gas |-> <<>>, electric |-> <<>>]
    /\ exitCode = <<>>
    /\ reply = NoReply
    /\ request = NoRequest
    /\ invocations = NoInvocations

\* the pipeline of a run ended with r on the body the portal sent; files0
\* keeps the documents as they were before it
Ran(serviceType, body, r) ==
    /\ files' = [files EXCEPT ![Prefix(serviceType)] = r.docs]
    /\ files0' = files
    /\ portal' = body
    /\ results' = [results EXCEPT ![Prefix(serviceType)] = Recorded(r)]
    /\ stage' = [stage EXCEPT ![Prefix(serviceType)] = r.trace]

\* the run of this time of the clock: the configured utility's pipeline on
\* a body of the portal
Reconcile(serviceType) ==
    /\ Configured(serviceType)
    /\ stage[Prefix(serviceType)] = <<>>
    /\ \E body \in StoreBodies(serviceType, now) :
          Ran(serviceType, body,
              read_api(serviceType, files[Prefix(serviceType)], body, now, "none"))
    /\ UNCHANGED <<invocations, request, reply, env, now, pc, browser, login, exitCode>>

\* time passes until the next time of the clock, whose run has not started
Tick ==
    /\ \E i \in 1..(Len(Clock) - 1) : now = Clock[i] /\ now' = Clock[i + 1]
    /\ files0' = files
    /\ portal' = NoBody
    /\ results' = [gas |-> NoResult, electric |-> NoResult]
    /\ stage' = [gas |-> <<>>, electric |-> <<>>]
    /\ UNCHANGED <<invocations, request, reply, env, files, pc, browser, login, exitCode>>

StoreNext ==
    \/ \E serviceType \in {"GAS", "ELECTRIC"} : Reconcile(serviceType)
    \/ Tick

StoreSpec == StoreInit /\ [][StoreNext]_vars

----------------------------------------------------------------------------
(* Properties of one run (Spec) *)

Utilities == {"gas", "electric"}

Other(p) == IF p = "gas" THEN "electric" ELSE "gas"

\* the request of the utility p threw before a body arrived
FetchFailed(p) == stage[p] = <<"Fetching", "Failed">>

\* C1: with no meter configured or a required credential missing the run
\* refuses to start: no browser is launched and no login is attempted.
C1_RefusesToStart == ~valid_config => (browser = "none" /\ login = "none")

\* C2: a run ends with exit code 0 exactly when the pipeline of at least one
\* configured utility completed, and with exit code 1 when the configuration is
\* invalid, the login failed or every configured utility failed.
C2_ExitCode ==
    pc = "exited" =>
        /\ exitCode = <<0>> <=> \E p \in Utilities : results[p].success
        /\ (~valid_config \/ login # "ok" \/ \A p \in Utilities : ~results[p].success)
               => exitCode = <<1>>

\* the exit(0) of the finally block is reached only by a run in which a
\* pipeline completed
C2_FinallyKeepsFailure ==
    (pc = "finally" \/ exitCode = <<0>>) => \E p \in Utilities : results[p].success

\* C3: after a successful login with both utilities configured the electric
\* pipeline is started whatever became of gas: a gas failure is recorded in
\* results.gas, and when the electric pipeline starts gas has touched neither
\* the electric documents nor the electric result.
C3_GasFailureIsolated ==
    (login = "ok" /\ Configured("GAS") /\ Configured("ELECTRIC")) =>
        /\ pc \in {"summary", "finally", "exited"} =>
              /\ stage.electric # <<>>
              /\ results.gas.success \/ results.gas.error # <<>>
        /\ pc = "electric" =>
              /\ \A name \in DOMAIN FreshDocs \ {"history"} :
                    files.electric[name] = files0.electric[name]
              /\ files.electric.history \in {files0.electric.history, Doc(<<>>)}
              /\ results.electric = NoResult
              /\ stage.electric = <<>>

\* a run in which gas failed after its body arrived and electric completed
C3_Witness ==
    /\ pc = "exited" /\ login = "ok" /\ Configured("GAS") /\ Configured("ELECTRIC")
    /\ Len(stage.gas) > 2 /\ results.gas.error # <<>>
    /\ results.electric.success /\ results.electric.data_points > 0

\* C4 as stated: when the request of a utility throws, its history, latest,
\* recent, monthly and energy-stats documents are as they were when the
\* process started, and the run exits 0 if the other utility completes.
C4_NothingWritten ==
    \A p \in Utilities :
        FetchFailed(p) =>
            /\ \A name \in {"history", "latest", "recent", "monthly", "stats"} :
                  files[p][name] = files0[p][name]
            /\ (pc = "exited" /\ results[Other(p)].success) => exitCode = <<0>>

\* C4 amended: when the request of a utility throws, the run leaves its raw,
\* latest, recent, monthly and energy-stats documents as they were and its
\* history as it was, except that a history file that did not exist is now
\* the empty array the constructor wrote; the run exits 0 if the other
\* utility completes.
C4_NothingOverwritten ==
    \A p \in Utilities :
        FetchFailed(p) =>
            /\ \A name \in {"raw", "latest", "recent", "monthly", "stats"} :
                  files[p][name] = files0[p][name]
            /\ \/ files[p].history = files0[p].history
               \/ files0[p].history.st = "absent" /\ files[p].history = Doc(<<>>)
            /\ (pc = "exited" /\ results[Other(p)].success) => exitCode = <<0>>

\* gas had documents, its request threw, electric completed, exit code 0
C4_Witness ==
    /\ pc = "exited" /\ exitCode = <<0>>
    /\ FetchFailed("gas") /\ files0.gas.history.st = "ok" /\ files0.gas.latest.st = "ok"
    /\ results.electric.success

\* C5: in a run that launched the browser, the browser is closed when the
\* process exits.
C5_BrowserClosed == (pc = "exited" /\ browser # "none") => browser = "closed"

\* the documents of a utility are those before the run, but for a missing
\* history file created as the empty array
OnlyHistoryCreated(p) ==
    /\ [files[p] EXCEPT !.history = files0[p].history] = files0[p]
    /\ \/ files[p].history = files0[p].history
       \/ files0[p].history.st = "absent" /\ files[p].history = Doc(<<>>)

\* no usage request is issued before the login has succeeded, and a failed
\* login ends the run with exit code 1 and the documents as the constructor
\* left them
LoginGuardsTheRun ==
    /\ \A p \in Utilities : stage[p] # <<>> => login = "ok"
    /\ pc \in {"gas", "gas_response", "electric", "electric_response",
               "summary", "finally"} => login = "ok"
    /\ login = "failed" =>
          /\ pc = "exited" /\ exitCode = <<1>>
          /\ \A p \in Utilities : OnlyHistoryCreated(p)

StageRank(name) ==
    CASE name = "Fetching"    -> 1
      [] name = "Decoding"    -> 2
      [] name = "Normalizing" -> 3
      [] name = "Reconciling" -> 4
      [] name = "Exporting"   -> 5
      [] name = "Exported"    -> 6
      [] name = "Failed"      -> 7

\* the stages of a utility were entered in the order of the pipeline, none
\* after a later one (the XML decoder after the JSON decoder stays in Decoding)
InOrder(trace) ==
    \A i, j \in 1..Len(trace) : i < j => StageRank(trace[i]) <= StageRank(trace[j])

\* C20: each utility's pipeline passes through its stages only in the order
\* fetch, decode, normalize, reconcile, export and never returns to an
\* earlier stage; for electric, decoding is not entered again once the
\* JSON-decoded batch has reached the reconcile or export step.
C20_StagesInOrder == \A p \in Utilities : InOrder(stage[p])

\* the gas pipeline, which has no second decoder, keeps the order
C20_GasStagesInOrder == InOrder(stage.gas)

\* an electric pipeline that ends Exported kept the order
C20_ElectricExportedInOrder ==
    (\E k \in 1..Len(stage.electric) : stage.electric[k] = "Exported") =>
        InOrder(stage.electric)

----------------------------------------------------------------------------
(* Properties of the history store (StoreSpec) *)

\* the persisted history of a utility, and as it was before the last run
History(p) == loadHistoricalData(files[p].history)

HistoryBefore(p) == loadHistoricalData(files0[p].history)

\* the batch the last run handed to storeUsageData
Batch(p) == Decoded(ServiceOf(p), portal, now)

\* the last run of the utility called storeUsageData
Reconciling(p) == \E k \in 1..Len(stage[p]) : stage[p][k] = "Reconciling"

\* a series without its created_at bookkeeping
Observable(historical_data) ==
    [i \in 1..Len(historical_data) |-> [historical_data[i] EXCEPT !.created_at = 0]]

\* C6: reconciliation is idempotent: calling storeUsageData again with the
\* batch of the run, on the store that run produced, leaves the series as it
\* is in every field but created_at.
C6_Idempotent ==
    \A p \in Utilities :
        Reconciling(p) =>
            Observable(loadHistoricalData(
                storeUsageData(files[p].history, Batch(p), ServiceOf(p), now)))
                = Observable(History(p))

NonDecreasing(historical_data) ==
    \A i, j \in 1..Len(historical_data) :
        i < j => ~TimeLess(DateParse(historical_data[j].date),
                           DateParse(historical_data[i].date))

\* C7: after every reconciliation the persisted history is ordered by
\* non-decreasing calendar date, whatever the labels of the batch.
C7_Sorted == \A p \in Utilities : Reconciling(p) => NonDecreasing(History(p))

WithinTwoYears(historical_data, t) ==
    \A i \in 1..Len(historical_data) :
        TimeAtLeast(DateParse(historical_data[i].date), TwoYearsAgo(t))

\* C8: after every reconciliation, one with an empty batch included, the
\* persisted history has no entry dated earlier than two years before the run.
C8_Retention == \A p \in Utilities : Reconciling(p) => WithinTwoYears(History(p), now)

\* the dates of a history and the dates of a batch
DatesOf(historical_data) == { historical_data[i].date : i \in 1..Len(historical_data) }

BatchDates(usage_data) == { usage_data[k].full_date : k \in 1..Len(usage_data) }

\* the last reading of the batch for a date
LastFor(usage_data, d) ==
    usage_data[CHOOSE k \in 1..Len(usage_data) :
                   /\ usage_data[k].full_date = d
                   /\ \A l \in (k + 1)..Len(usage_data) : usage_data[l].full_date # d]

\* before: the store, usage_data: the batch, after: the store written
UpsertWins(before, usage_data, after, serviceType, t) ==
    /\ \A d \in BatchDates(usage_data) \cap DatesOf(before) :
          /\ \A j \in 1..Len(after) :
                after[j].date = d => after[j] = NewRecord(LastFor(usage_data, d), serviceType, t)
          /\ TimeAtLeast(DateParse(d), TwoYearsAgo(t)) => d \in DatesOf(after)
    /\ Len(after) <= Len(before) + Cardinality(BatchDates(usage_data) \ DatesOf(before))

\* C9: upsert wins: for a reading of the batch whose date an entry of the
\* store already has, the persisted entry of that date is the record built
\* from the (last) new reading, with none of the old entry's fields, and the
\* store grows only by the dates that are new.
C9_UpsertWins ==
    \A p \in Utilities :
        (Reconciling(p) /\ Batch(p) # <<>>) =>
            UpsertWins(HistoryBefore(p), Batch(p), History(p), ServiceOf(p), now)

\* the gas entry of 3/5 had no average; the run wrote one with a changed
\* usage and an average, and the store did not grow
C9_Witness ==
    /\ Reconciling("gas")
    /\ Len(History("gas")) = Len(HistoryBefore("gas"))
    /\ \E i \in 1..Len(HistoryBefore("gas")) : \E j \in 1..Len(History("gas")) :
          /\ HistoryBefore("gas")[i].date = History("gas")[j].date
          /\ HistoryBefore("gas")[i].average_ccf = <<>>
          /\ History("gas")[j].average_ccf = <<1500>>
          /\ HistoryBefore("gas")[i].usage_ccf # History("gas")[j].usage_ccf

UniqueDates(historical_data) ==
    \A i, j \in 1..Len(historical_data) :
        i # j => /\ historical_data[i].date # historical_data[j].date
                 /\ DateParse(historical_data[i].date) # DateParse(historical_data[j].date)

\* C10: starting from an empty history file, the persisted history of a
\* utility never holds two entries for the same calendar date.
C10_UniqueDates == \A p \in Utilities : UniqueDates(History(p))

\* a day the JSON path had stored (label "3/5") was delivered again by the
\* XML path, and the store still has one entry for it
C10_Witness ==
    /\ Reconciling("electric") /\ portal.xml /\ portal.json = "none"
    /\ Len(History("electric")) = Len(HistoryBefore("electric"))
    /\ \E i \in 1..Len(HistoryBefore("electric")) : \E j \in 1..Len(History("electric")) :
          /\ HistoryBefore("electric")[i].date = History("electric")[j].date
          /\ HistoryBefore("electric")[i].date_label = <<"3", "/", "5">>
          /\ History("electric")[j].date_label = History("electric")[j].date

----------------------------------------------------------------------------
(* Properties of the electric fallback (Spec) *)

\* C11: an electric body in which no JSON object is found, or whose object
\* does not parse, goes on to XML decoding: with no write failing,
\* read_electric_api throws exactly when the XML decode fails too, and a run
\* that completed on such a body left the XML body as the raw snapshot.
C11_XmlFallback ==
    /\ (pc = "electric_response" /\ portal.json # "ok") =>
          (read_electric_api(files.electric, portal, now, "none").thrown <=> ~portal.xml)
    /\ (results.electric.success /\ files.electric.raw.data.json # "ok") =>
          files.electric.raw.data.xml

\* the electric run completed on a body whose JSON did not parse
C11_Witness ==
    /\ pc = "exited" /\ results.electric.success /\ results.electric.data_points = 1
    /\ files.electric.raw.data.json = "bad" /\ files.electric.raw.data.xml

----------------------------------------------------------------------------
(* The decoders on one response (DecodeSpec): a first run of the one        *)
(* configured utility, reduced to its pipeline, on a body whose series hold *)
(* good and bad labels, or whose interval readings differ in quality.       *)

\* one position of the series: a label that is good, has no slash ("115"),
\* has an empty month ("/5") or an empty day ("3/"), or is missing (<<>>);
\* "13/45" has a slash, a month part and a day part and names no day
DecodePoints ==
    { [label |-> <<"3", "/", "5">>, usage |-> 10000, average |-> <<0>>],
      [label |-> <<"1", "3", "/", "4", "5">>, usage |-> 2000, average |-> <<>>],
      [label |-> <<"3", "/", "7">>, usage |-> 2000, average |-> <<1500>>],
      [label |-> <<"3", "/", "9">>, usage |-> 2000, average |-> <<>>],
      [label |-> <<"1", "1", "5">>, usage |-> 2000, average |-> <<>>],
      [label |-> <<"/", "5">>, usage |-> 2000, average |-> <<>>],
      [label |-> <<"3", "/">>, usage |-> 2000, average |-> <<>>],
      [label |-> <<>>, usage |-> 2000, average |-> <<>>] }

\* one espi:intervalreading: two of 3/5, one of 3/7, one of 3/5 that is not ACTUAL
DecodeReadings ==
    { [time |-> Midnight(2025, 3, 5), value |-> 700, quality |-> "ACTUAL"],
      [time |-> Midnight(2025, 3, 5) + 1, value |-> 300, quality |-> "ACTUAL"],
      [time |-> Midnight(2025, 3, 7), value |-> 500, quality |-> "ACTUAL"],
      [time |-> Midnight(2025, 3, 5), value |-> 900, quality |-> "ESTIMATED"] }

DecodeBodies(serviceType) ==
    { BodyOfPoints(points) : points \in SeqsUpTo(DecodePoints, MaxSeries) }
        \cup (IF serviceType = "ELECTRIC"
              THEN { XmlBody(intervalreading) :
                         intervalreading \in SeqsUpTo(DecodeReadings, MaxSeries) }
              ELSE {})

DecodeInit ==
    /\ env \in StoreEnvs
    /\ files = initHistoryFiles(FreshFiles)
    /\ files0 = files
    /\ now = RunTime
    /\ pc = "scheduled"
    /\ browser = "none"
    /\ login = "none"
    /\ portal = NoBody
    /\ results = [gas |-> NoResult, electric |-> NoResult]
    /\ stage = [gas |-> <<>>, electric |-> <<>>]
    /\ exitCode = <<>>
    /\ reply = NoReply
    /\ request = NoRequest
    /\ invocations = NoInvocations

\* the run: the configured utility's pipeline on a body of the portal
DecodeRun(serviceType) ==
    /\ Configured(serviceType)
    /\ stage[Prefix(serviceType)] = <<>>
    /\ \E body \in DecodeBodies(serviceType) :
          Ran(serviceType, body,
              read_api(serviceType, files[Prefix(serviceType)], body, now, "none"))
    /\ UNCHANGED <<invocations, request, reply, env, now, pc, browser, login, exitCode>>

DecodeNext == \E serviceType \in {"GAS", "ELECTRIC"} : DecodeRun(serviceType)

DecodeSpec == DecodeInit /\ [][DecodeNext]_vars

\* the label of index i of the series, <<>> when there is none
LabelOf(raw_data, i) == LabelAt(raw_data.TickSeries[1], i)

\* a label with a slash, a month part and a day part
GoodLabel(date_label) ==
    \E k \in 2..(Len(date_label) - 1) :
        /\ date_label[k] = "/"
        /\ \A j \in 1..(k - 1) : date_label[j] # "/"
        /\ date_label[k + 1] # "/"

\* the indexes of the series whose label is good
KeptIndexes(raw_data) ==
    { i \in 1..Len(raw_data.Series1[1]) : GoodLabel(LabelOf(raw_data, i)) }

\* the usage of a decoded reading
UsageOf(reading, p) == IF p = "gas" THEN reading.usage_ccf ELSE reading.usage_kwh

\* as many readings pair usage i with label i as kept indexes carry that pair
PairsKept(raw_data, usage_data, p) ==
    /\ Len(usage_data) = Cardinality(KeptIndexes(raw_data))
    /\ \A i \in KeptIndexes(raw_data) :
          Cardinality({ k \in 1..Len(usage_data) :
                          /\ usage_data[k].date = LabelOf(raw_data, i)
                          /\ UsageOf(usage_data[k], p) = raw_data.Series1[1][i] })
              = Cardinality({ j \in KeptIndexes(raw_data) :
                                /\ LabelOf(raw_data, j) = LabelOf(raw_data, i)
                                /\ raw_data.Series1[1][j] = raw_data.Series1[1][i] })

\* C12: in tabular-JSON decoding an index whose label is missing, has no
\* slash or has an empty month or day part is dropped, and every other index
\* yields exactly one reading pairing its usage with its label.
C12_BadLabelsDropped ==
    \A p \in Utilities :
        (Reconciling(p) /\ portal.json = "ok") => PairsKept(portal.raw_data, Batch(p), p)

\* a batch of two indexes, the first with a bad label, decoded to one reading
C12_Witness ==
    \E p \in Utilities :
        /\ Reconciling(p) /\ portal.json = "ok"
        /\ Len(portal.raw_data.Series1[1]) = 2
        /\ ~GoodLabel(LabelOf(portal.raw_data, 1))
        /\ Len(Batch(p)) = 1 /\ Len(History(p)) = 1

\* the calendar day on which a reading starts, counted in days
DayOfReading(reading) == reading.time \div TicksPerDay

\* the days that have a reading of quality ACTUAL
ActualDays(intervalreading) ==
    { DayOfReading(intervalreading[k]) :
        k \in { n \in 1..Len(intervalreading) : intervalreading[n].quality = "ACTUAL" } }

\* the sum of the values (Wh, thousandths of a kWh) of the ACTUAL readings of a day
RECURSIVE SumActual(_, _)
SumActual(intervalreading, day) ==
    IF intervalreading = <<>> THEN 0
    ELSE (IF Head(intervalreading).quality = "ACTUAL" /\ DayOfReading(Head(intervalreading)) = day
          THEN Head(intervalreading).value ELSE 0)
             + SumActual(Tail(intervalreading), day)

\* the batch has one reading per day with an ACTUAL reading, whose kWh is
\* the sum of that day's ACTUAL values
DailySums(intervalreading, batch) ==
    /\ Len(batch) = Cardinality(ActualDays(intervalreading))
    /\ \A i, j \in 1..Len(batch) : i # j => batch[i].full_date # batch[j].full_date
    /\ \A i \in 1..Len(batch) :
          \E day \in ActualDays(intervalreading) :
              /\ batch[i].full_date = FormatCivil(CivilFromDays(day))
              /\ batch[i].usage_kwh = SumActual(intervalreading, day)

\* C17: in interval-XML decoding each output day's kWh is the sum of the
\* values of the ACTUAL readings that start on that calendar day, divided
\* by 1000; readings of another quality contribute to no day; and there is
\* exactly one output reading per calendar day with an ACTUAL reading.
C17_DailySums ==
    (Reconciling("electric") /\ portal.json # "ok" /\ portal.xml) =>
        /\ DailySums(portal.intervalreading, Batch("electric"))
        /\ Len(History("electric")) = Len(Batch("electric"))

\* an ESTIMATED and an ACTUAL reading of the same day: one output of 0.7 kWh
C17_Witness ==
    /\ Reconciling("electric") /\ portal.json # "ok" /\ portal.xml
    /\ Len(portal.intervalreading) = 2
    /\ portal.intervalreading[1].quality = "ESTIMATED"
    /\ portal.intervalreading[2].quality = "ACTUAL"
    /\ DayOfReading(portal.intervalreading[1]) = DayOfReading(portal.intervalreading[2])
    /\ Len(History("electric")) = 1
    /\ History("electric")[1].usage_kwh = 700

\* two ACTUAL readings of one day are summed into one output
C17_SameDaySummed ==
    /\ Reconciling("electric") /\ portal.xml
    /\ Len(portal.intervalreading) = 2
    /\ Len(History("electric")) = 1
    /\ History("electric")[1].usage_kwh = 1000

\* the average the portal delivers for index i, <<>> when there is none
DeliveredAverage(raw_data, i) ==
    IF raw_data.Series2 # <<>> /\ i <= Len(raw_data.Series2[1])
    THEN raw_data.Series2[1][i] ELSE <<>>

\* the last kept index that carries its label
LastOfLabel(raw_data, i) ==
    /\ i \in KeptIndexes(raw_data)
    /\ \A j \in KeptIndexes(raw_data) :
          j > i => LabelOf(raw_data, j) # LabelOf(raw_data, i)

\* the record holds the usage and the average delivered for index i, and
\* the usage times 1.037 to the nearest thousandth
GasRecordOf(record, raw_data, i) ==
    /\ record.date_label = LabelOf(raw_data, i)
    /\ record.usage_ccf = raw_data.Series1[1][i]
    /\ record.average_ccf = DeliveredAverage(raw_data, i)
    /\ 2 * (1000 * record.usage_therms - 1037 * record.usage_ccf) \in (0 - 1000)..1000

\* every index kept in those of `indexes` has its record in the history
GasRecordsOf(raw_data, historical_data, indexes) ==
    \A i \in indexes :
        LastOfLabel(raw_data, i) =>
            \E k \in 1..Len(historical_data) : GasRecordOf(historical_data[k], raw_data, i)

\* the label of index i names a day of the year of the run
NamesADay(raw_data, i) ==
    /\ GoodLabel(LabelOf(raw_data, i))
    /\ DateParse(FullDate(LabelOf(raw_data, i), GetFullYear(now))[1]) # <<>>

\* C18: every gas reading written to the history has usage_therms equal to
\* usage_ccf * 1.037 rounded to 3 decimals, and the usage_ccf and the
\* average_ccf the portal delivered for its index, an average of 0 included.
C18_GasRecord ==
    (Reconciling("gas") /\ portal.json = "ok") =>
        GasRecordsOf(portal.raw_data, History("gas"),
                     { i \in 1..Len(portal.raw_data.Series1[1]) :
                         NamesADay(portal.raw_data, i) })

\* the same for the indexes whose label names a day and whose delivered
\* average is not 0
C18_GasRecordNonZeroAverage ==
    (Reconciling("gas") /\ portal.json = "ok") =>
        GasRecordsOf(portal.raw_data, History("gas"),
                     { i \in 1..Len(portal.raw_data.Series1[1]) :
                         /\ NamesADay(portal.raw_data, i)
                         /\ DeliveredAverage(portal.raw_data, i) # <<0>> })

\* usage_ccf = 10 is stored with usage_therms = 10.370
C18_TenCcf ==
    /\ Reconciling("gas") /\ portal.json = "ok"
    /\ \E k \in 1..Len(History("gas")) :
          History("gas")[k].usage_ccf = 10000 /\ History("gas")[k].usage_therms = 10370

----------------------------------------------------------------------------
(* The exporter on one history file (ExportSpec): exportForHomeAssistant    *)
(* of the one configured utility on a history file that holds a sorted      *)
(* store, is empty or unreadable, next to views that are missing or were    *)
(* exported from an older store.                                            *)

\* the days a store may hold, over the turn of a year, and their usage
ExportDays ==
    << [y |-> 2024, m |-> 12, d |-> 30, usage |-> 2000],
       [y |-> 2024, m |-> 12, d |-> 31, usage |-> 3001],
       [y |-> 2025, m |-> 1, d |-> 1, usage |-> 1000],
       [y |-> 2025, m |-> 1, d |-> 2, usage |-> 4000],
       [y |-> 2025, m |-> 3, d |-> 5, usage |-> 2500] >>

\* the reading the decoder makes of a day, the day after
ReadingOfDay(day, serviceType) ==
    IF serviceType = "GAS"
    THEN [date        |-> NumToStr(day.m) \o <<"/">> \o NumToStr(day.d),
          full_date   |-> FormatCivil(day),
          usage_ccf   |-> day.usage,
          average_ccf |-> <<>>,
          unit        |-> "CCF",
          timestamp   |-> Midnight(day.y, day.m, day.d) + TicksPerDay + 1]
    ELSE [date        |-> NumToStr(day.m) \o <<"/">> \o NumToStr(day.d),
          full_date   |-> FormatCivil(day),
          usage_kwh   |-> day.usage,
          unit        |-> "kWh",
          timestamp   |-> Midnight(day.y, day.m, day.d) + TicksPerDay + 1]

\* the record storeUsageData wrote for a day, the day after
RecordOfDay(day, serviceType) ==
    NewRecord(ReadingOfDay(day, serviceType), serviceType,
              Midnight(day.y, day.m, day.d) + TicksPerDay + 1)

\* the store of the days picked, oldest first
StoreOfDays(picked, serviceType) ==
    [i \in 1..Len(picked) |-> RecordOfDay(ExportDays[picked[i]], serviceType)]

\* the stores of at most MaxEntries days, sorted by date
ExportStores(serviceType) ==
    { StoreOfDays(picked, serviceType) :
        picked \in { q \in SeqsUpTo(1..Len(ExportDays), MaxEntries) :
                       \A i \in 1..(Len(q) - 1) : q[i] < q[i + 1] } }

\* the history documents the exporter may find
ExportHistories(serviceType) ==
    { Doc(store) : store \in ExportStores(serviceType) }
        \cup { [st |-> "corrupt", data |-> <<>>] }

\* the documents an older export left: the views of the store of the first day
OlderDocs(serviceType) ==
    exportForHomeAssistant(
        [FreshDocs EXCEPT !.history = Doc(StoreOfDays(<<1>>, serviceType))],
        serviceType, DayBefore, "none").docs

\* the data directories: the configured utility has the history document
\* and views that are missing or older
ExportFiles(serviceType) ==
    { [FreshFiles EXCEPT ![Prefix(serviceType)] = [views EXCEPT !.history = history]] :
        views \in {FreshDocs, OlderDocs(serviceType)},
        history \in ExportHistories(serviceType) }

ExportInit ==
    /\ env \in StoreEnvs
    /\ files \in ExportFiles(IF Configured("GAS") THEN "GAS" ELSE "ELECTRIC")
    /\ files0 = files
    /\ now = RunTime
    /\ pc = "scheduled"
    /\ browser = "none"
    /\ login = "none"
    /\ portal = NoBody
    /\ results = [gas |-> NoResult, electric |-> NoResult]
    /\ stage = [gas |-> <<>>, electric |-> <<>>]
    /\ exitCode = <<>>
    /\ reply = NoReply
    /\ request = NoRequest
    /\ invocations = NoInvocations

\* this.exportForHomeAssistant(serviceType), no write failing
Export(serviceType) ==
    /\ Configured(serviceType)
    /\ stage[Prefix(serviceType)] = <<>>
    /\ files' = [files EXCEPT ![Prefix(serviceType)] =
                    exportForHomeAssistant(@, serviceType, now, "none").docs]
    /\ stage' = [stage EXCEPT ![Prefix(serviceType)] = <<"Exporting", "Exported">>]
    /\ UNCHANGED <<invocations, request, reply, env, files0, now, pc, browser, login, portal, results, exitCode>>

ExportNext == \E serviceType \in {"GAS", "ELECTRIC"} : Export(serviceType)

ExportSpec == ExportInit /\ [][ExportNext]_vars

\* exportForHomeAssistant has run for the utility
Exported(p) == stage[p] = <<"Exporting", "Exported">>

\* the month of a record and of a rollup, counted in months
MonthOfRecord(record) ==
    StrToNum(SubSeq(record.date, 7, 10)) * 12 + StrToNum(SubSeq(record.date, 1, 2))

MonthOfRollup(rollup) ==
    StrToNum(SubSeq(rollup.month, 1, 4)) * 12 + StrToNum(SubSeq(rollup.month, 6, 7))

\* the quantity of a record, and the total and daily average of a rollup
QuantityOf(record, p) == IF p = "gas" THEN record.usage_ccf ELSE record.usage_kwh

TotalOf(rollup, p) == IF p = "gas" THEN rollup.total_ccf ELSE rollup.total_kwh

AverageOf(rollup, p) ==
    IF p = "gas" THEN rollup.average_daily_ccf ELSE rollup.average_daily_kwh

RECURSIVE SumOver(_, _, _)
SumOver(historical_data, month, p) ==
    IF historical_data = <<>> THEN 0
    ELSE (IF MonthOfRecord(Head(historical_data)) = month
          THEN QuantityOf(Head(historical_data), p) ELSE 0)
             + SumOver(Tail(historical_data), month, p)

RECURSIVE SumDays(_)
SumDays(rollups) == IF rollups = <<>> THEN 0 ELSE Head(rollups).days + SumDays(Tail(rollups))

\* the rollups are the monthly summary of the store
MonthlyOk(historical_data, rollups, p) ==
    /\ Len(rollups)
          = Cardinality({ MonthOfRecord(historical_data[i]) : i \in 1..Len(historical_data) })
    /\ \A i, j \in 1..Len(rollups) :
          i < j => MonthOfRollup(rollups[i]) < MonthOfRollup(rollups[j])
    /\ \A i \in 1..Len(rollups) :
          /\ rollups[i].days
                = Cardinality({ k \in 1..Len(historical_data) :
                                  MonthOfRecord(historical_data[k]) = MonthOfRollup(rollups[i]) })
          /\ rollups[i].days > 0
          /\ TotalOf(rollups[i], p) = SumOver(historical_data, MonthOfRollup(rollups[i]), p)
          /\ 2 * AverageOf(rollups[i], p) * rollups[i].days - 2 * TotalOf(rollups[i], p)
                \in (0 - rollups[i].days)..rollups[i].days
    /\ SumDays(rollups) = Len(historical_data)

\* C13: createMonthlySummary returns one rollup per (year, month) of the
\* store, in ascending order; the days of a rollup count the entries of its
\* month, its total is the sum of their quantities, its daily average is the
\* total divided by the days (to the nearest thousandth), and the days of
\* all rollups sum to the length of the store.
C13_MonthlySummary ==
    \A p \in Utilities :
        (Exported(p) /\ History(p) # <<>>) =>
            /\ files[p].monthly = Doc(createMonthlySummary(History(p), ServiceOf(p)))
            /\ MonthlyOk(History(p), files[p].monthly.data, p)

\* a store of three days over December and January, with two rollups
C13_Witness ==
    \E p \in Utilities :
        /\ Exported(p) /\ Len(History(p)) = 3
        /\ Len(files[p].monthly.data) = 2
        /\ files[p].monthly.data[1].month = <<"2", "0", "2", "4", "-", "1", "2">>
        /\ files[p].monthly.data[1].days = 2

\* C14: exportForHomeAssistant on an empty store (the history file holds []
\* or cannot be read) writes no document, so every view keeps its previous
\* content; on a non-empty store the latest document is the final element
\* of the loaded store.
C14_EmptyStoreNoOp ==
    \A p \in Utilities :
        Exported(p) =>
            IF History(p) = <<>>
            THEN files[p] = files0[p]
            ELSE /\ files[p].latest = Doc(<<History(p)[Len(History(p))]>>)
                 /\ files[p].history = files0[p].history

\* an export on an empty store next to the views of an older export
C14_Witness ==
    \E p \in Utilities :
        /\ Exported(p) /\ History(p) = <<>>
        /\ files[p].latest.st = "ok" /\ files[p].monthly.st = "ok"
        /\ files[p].latest.data[1].date = <<"1", "2", "/", "3", "0", "/", "2", "0", "2", "4">>

\* an export on a store of three days that replaces the older latest document
C14_LatestReplaced ==
    \E p \in Utilities :
        /\ Exported(p) /\ Len(History(p)) = 3
        /\ files0[p].latest.st = "ok"
        /\ files[p].latest # files0[p].latest

----------------------------------------------------------------------------
(* The file server (ServerSpec): GET requests on a data directory as the    *)
(* collector leaves it.  A file `${type}/duke-${type}-${format}.json` is    *)
(* the pair <<type, format>>; a reply is [type, format: the request;        *)
(* code: the status; data: <<the body of a 200>>; available_files:          *)
(* <<the files listed by a 404 of serveJsonFile>>].                         *)

validTypes == {"gas", "electric"}

validFormats == {"latest", "history", "recent", "monthly", "raw"}

\* the names of the files the collector writes for a utility
WrittenFormats == validFormats \cup {"energy-stats"}

\* the document at path.join(DATA_DIRECTORY, filename)
DocumentAt(fs, type, format) ==
    IF type \in DOMAIN fs /\ format \in WrittenFormats
    THEN fs[type][IF format = "energy-stats" THEN "stats" ELSE format]
    ELSE AbsentDoc

fileExists(fs, type, format) == DocumentAt(fs, type, format).st # "absent"

\* possibleFiles.filter(file => this.fileExists(file))
listAvailableFiles(fs) ==
    { file \in validTypes \X validFormats : fileExists(fs, file[1], file[2]) }

\* serveJsonFile: 404 with the listing, 500 when the file does not parse,
\* else the parsed document
serveJsonFile(fs, type, format) ==
    IF ~fileExists(fs, type, format)
    THEN [code |-> 404, data |-> <<>>, available_files |-> <<listAvailableFiles(fs)>>]
    ELSE IF DocumentAt(fs, type, format).st = "corrupt"
    THEN [code |-> 500, data |-> <<>>, available_files |-> <<>>]
    ELSE [code |-> 200, data |-> <<DocumentAt(fs, type, format).data>>,
          available_files |-> <<>>]

BadRequest == [code |-> 400, data |-> <<>>, available_files |-> <<>>]

\* the router's answer to a path without a route
RouteNotFound == [code |-> 404, data |-> <<>>, available_files |-> <<>>]

\* GET /data/:type/:format? with format <<>> when the path has none
DataRoute(fs, type, format) ==
    IF type \notin validTypes THEN BadRequest
    ELSE IF format # <<>> /\ format[1] \notin validFormats THEN BadRequest
    ELSE serveJsonFile(fs, type, IF format = <<>> THEN "latest" ELSE format[1])

\* GET /${type}-${format}: the ten routes of lines 98-140
NamedRoute(fs, type, format) ==
    IF type \in validTypes /\ format \in validFormats
    THEN serveJsonFile(fs, type, format)
    ELSE RouteNotFound

\* the reply with the request it answers
Answer(type, format, r) ==
    [type |-> type, format |-> format, code |-> r.code, data |-> r.data,
     available_files |-> r.available_files]

\* both utilities configured
ServerEnv ==
    [EMAIL |-> Value, PASSWORD |-> Value, ACCOUNTNUM |-> Value,
     GAS_METERNUM |-> Value, ELECTRIC_METERNUM |-> Value]

\* the directory of a utility: nothing yet, the constructor's empty history,
\* a run without data (raw and history only), a run with data (all six)
ServerDocs(p) ==
    { FreshDocs,
      [FreshDocs EXCEPT !.history = Doc(<<>>)],
      read_api(ServiceOf(p), [FreshDocs EXCEPT !.history = Doc(<<>>)],
               EmptyJsonBody, DayBefore, "none").docs,
      EarlierFiles[p] }

\* the types and formats of the requests
RequestTypes == validTypes \cup {"water"}

RequestFormats == WrittenFormats \cup {"hourly"}

ServerInit ==
    /\ env = ServerEnv
    /\ files \in [gas : ServerDocs("gas"), electric : ServerDocs("electric")]
    /\ files0 = files
    /\ now = RunTime
    /\ pc = "listening"
    /\ browser = "none"
    /\ login = "none"
    /\ portal = NoBody
    /\ results = [gas |-> NoResult, electric |-> NoResult]
    /\ stage = [gas |-> <<>>, electric |-> <<>>]
    /\ exitCode = <<>>
    /\ reply = NoReply
    /\ request = NoRequest
    /\ invocations = NoInvocations

GetData(type, format) ==
    /\ pc = "listening"
    /\ reply' = Answer(type, format, DataRoute(files, type, format))
    /\ UNCHANGED <<invocations, request, env, files, files0, now, pc, browser, login, portal, results, stage, exitCode>>

GetNamed(type, format) ==
    /\ pc = "listening"
    /\ reply' = Answer(type, <<format>>, NamedRoute(files, type, format))
    /\ UNCHANGED <<invocations, request, env, files, files0, now, pc, browser, login, portal, results, stage, exitCode>>

ServerNext ==
    \/ \E type \in RequestTypes, format \in RequestFormats : GetData(type, <<format>>)
    \/ \E type \in RequestTypes : GetData(type, <<>>)
    \/ \E type \in validTypes, format \in RequestFormats : GetNamed(type, format)

ServerSpec == ServerInit /\ [][ServerNext]_vars

\* the files present among those the collector writes
Present == { file \in validTypes \X WrittenFormats : fileExists(files, file[1], file[2]) }

\* the last request asked for a document kind of a utility
AskedFor(formats) ==
    /\ reply.type \in validTypes
    /\ reply.format # <<>> /\ reply.format[1] \in formats

\* the reply is the document, or a not-found listing the files present
DocumentOrListing ==
    IF fileExists(files, reply.type, reply.format[1])
    THEN /\ reply.code = 200
         /\ reply.data = <<DocumentAt(files, reply.type, reply.format[1]).data>>
    ELSE /\ reply.code = 404
         /\ reply.available_files = <<Present>>

\* C16: a request for a (utility, view) pair, the view one of raw, history,
\* latest, recent, monthly and energy-stats, is answered with the document
\* when the file exists and with a not-found response listing exactly the
\* documents present when it does not.
C16_ServesEveryDocument == AskedFor(WrittenFormats) => DocumentOrListing

\* for the five formats the server knows, the file that exists is served
C16_ServesKnownFormats ==
    (AskedFor(validFormats) /\ fileExists(files, reply.type, reply.format[1])) =>
        DocumentOrListing

----------------------------------------------------------------------------
(* The date window of the usage request (WindowSpec): read_gas_api and      *)
(* read_electric_api up to req_json, for runs on the days around the turn   *)
(* of a year and the end of February, at every time of day.                 *)

\* yesterday = new Date(); yesterday.setDate(yesterday.getDate() - 1)
Yesterday(t) == SetDate(t, GetDate(t) - 1)

\* daysAgo = new Date(yesterday); daysAgo.setDate(yesterday.getDate() - k)
DaysAgo(yesterday, k) == SetDate(yesterday, GetDate(yesterday) - k)

\* formatDate: MM/DD/YYYY of the local day
formatDate(t) == FormatCivil(CivilFromDays(t \div TicksPerDay))

\* the days the request reaches back from yesterday
WindowDays(serviceType) == IF serviceType = "GAS" THEN 30 ELSE 7

\* StartDate and EndDate of req_json, given yesterday
DatesOfRequest(serviceType, yesterday) ==
    [ServiceType |-> serviceType,
     StartDate   |-> formatDate(DaysAgo(yesterday, WindowDays(serviceType))),
     EndDate     |-> formatDate(yesterday)]

req_json(serviceType, t) == DatesOfRequest(serviceType, Yesterday(t))

\* the days of the runs: 12/28/2024 to 01/08/2025, and 02/27 to 03/02 and
\* 03/29 to 04/01 of 2024 (a leap year) and of 2025
RunDays ==
    { DaysFromCivil(2024, 12, 28) + k : k \in 0..11 }
        \cup { DaysFromCivil(y, 2, 27) + k : y \in {2024, 2025}, k \in 0..4 }
        \cup { DaysFromCivil(y, 3, 29) + k : y \in {2024, 2025}, k \in 0..3 }

WindowInit ==
    /\ env \in StoreEnvs
    /\ files = initHistoryFiles(FreshFiles)
    /\ files0 = files
    /\ now \in { day * TicksPerDay + tick : day \in RunDays, tick \in 0..(TicksPerDay - 1) }
    /\ pc = "scheduled"
    /\ browser = "open"
    /\ login = "ok"
    /\ portal = NoBody
    /\ results = [gas |-> NoResult, electric |-> NoResult]
    /\ stage = [gas |-> <<>>, electric |-> <<>>]
    /\ exitCode = <<>>
    /\ reply = NoReply
    /\ request = NoRequest
    /\ invocations = NoInvocations

\* read_*_api up to api_page.goto: the request is sent
Request(serviceType) ==
    /\ Configured(serviceType)
    /\ stage[Prefix(serviceType)] = <<>>
    /\ request' = req_json(serviceType, now)
    /\ stage' = [stage EXCEPT ![Prefix(serviceType)] = <<"Fetching">>]
    /\ UNCHANGED <<invocations, reply, env, files, files0, now, pc, browser, login, portal, results, exitCode>>

WindowNext == \E serviceType \in {"GAS", "ELECTRIC"} : Request(serviceType)

WindowSpec == WindowInit /\ [][WindowNext]_vars

\* the day of a MM/DD/YYYY string, counted in days
DayOfDate(date) ==
    DaysFromCivil(StrToNum(SubSeq(date, 7, 10)), StrToNum(SubSeq(date, 1, 2)),
                  StrToNum(SubSeq(date, 4, 5)))

\* a request has been sent
Requested == request.ServiceType \in {"GAS", "ELECTRIC"}

\* the calendar days from StartDate to EndDate, both included
DaysRequested == DayOfDate(request.EndDate) - DayOfDate(request.StartDate) + 1

\* C19: for every run date the requested range ends on the calendar day
\* before the run date and covers exactly the trailing 7 calendar days for
\* electric and exactly the trailing 30 calendar days for gas.
C19_TrailingWindow ==
    Requested =>
        /\ DayOfDate(request.EndDate) = (now \div TicksPerDay) - 1
        /\ DaysRequested = WindowDays(request.ServiceType)

\* the range ends on the day before the run and starts 7 (electric) or 30
\* (gas) days before its end, whatever the month or year of the run
C19_StartsDaysBeforeEnd ==
    Requested =>
        /\ DayOfDate(request.EndDate) = (now \div TicksPerDay) - 1
        /\ DayOfDate(request.EndDate) - DayOfDate(request.StartDate)
              = WindowDays(request.ServiceType)

\* a run on 01/01/2025 has asked for the electric data of 12/24 to 12/31/2024
C19_NewYearRun ==
    /\ now \div TicksPerDay = DaysFromCivil(2025, 1, 1)
    /\ request.ServiceType = "ELECTRIC"
    /\ request.StartDate = <<"1", "2", "/", "2", "4", "/", "2", "0", "2", "4">>
    /\ request.EndDate = <<"1", "2", "/", "3", "1", "/", "2", "0", "2", "4">>

----------------------------------------------------------------------------
(* A run two years after the last one (LateSpec): the configured utility    *)
(* has the history and the views that the run after 12/30/2024 left, and    *)
(* the pipeline runs on one response.                                       *)

LateInit ==
    /\ env \in StoreEnvs
    /\ files = [p \in {"gas", "electric"} |->
                  IF Configured(ServiceOf(p)) THEN OlderDocs(ServiceOf(p)) ELSE FreshDocs]
    /\ files0 = files
    /\ now = Clock[Len(Clock)]
    /\ pc = "scheduled"
    /\ browser = "none"
    /\ login = "none"
    /\ portal = NoBody
    /\ results = [gas |-> NoResult, electric |-> NoResult]
    /\ stage = [gas |-> <<>>, electric |-> <<>>]
    /\ exitCode = <<>>
    /\ reply = NoReply
    /\ request = NoRequest
    /\ invocations = NoInvocations

LateSpec == LateInit /\ [][DecodeNext]_vars

----------------------------------------------------------------------------
(* Properties of the documents a run leaves *)

\* the pipeline of the utility completed in the last run
Completed(p) == results[p].success

\* the entries dated within the 30 days before now
WithinThirtyDays(historical_data) ==
    SelectSeq(historical_data, LAMBDA record :
                  /\ DateParse(record.date) # <<>>
                  /\ DateParse(record.date)[1] >= now - 30 * TicksPerDay)

\* one cost entry per entry of the history, in its order
CostPerEntry(historical_data, energy_stats) ==
    /\ Len(energy_stats) = Len(historical_data)
    /\ \A i \in 1..Len(energy_stats) : energy_stats[i].date = historical_data[i].date

\* the four views are the view functions of the history
ViewsOf(historical_data, docs, p) ==
    /\ docs.latest = Doc(<<historical_data[Len(historical_data)]>>)
    /\ docs.recent = Doc(WithinThirtyDays(historical_data))
    /\ docs.monthly.st = "ok" /\ MonthlyOk(historical_data, docs.monthly.data, p)
    /\ docs.stats.st = "ok" /\ CostPerEntry(historical_data, docs.stats.data)

\* no view shows an entry
NoViewShows(docs) ==
    \A name \in {"latest", "recent", "monthly", "stats"} : docs[name].data = <<>>

\* C21: at the end of every run in which a utility's pipeline completed,
\* its four views are the view functions applied to the history file as the
\* run persisted it: latest its last entry, recent its entries of the last
\* 30 days, monthly its rollup, energy-stats one cost entry per entry.
C21_ViewsOfHistory ==
    \A p \in Utilities :
        Completed(p) =>
            IF History(p) = <<>> THEN NoViewShows(files[p])
            ELSE ViewsOf(History(p), files[p], p)

\* a completed run on a JSON response left an empty history next to the
\* latest document of the run of two years before
C21_StaleLatest ==
    \E p \in Utilities :
        /\ Completed(p) /\ portal.json = "ok"
        /\ History(p) = <<>> /\ files[p].history # files0[p].history
        /\ files[p].latest.st = "ok" /\ files[p].latest = files0[p].latest

----------------------------------------------------------------------------
(* Two runs at the same time (RaceSpec): the scheduler fired twice and two  *)
(* collector processes work on the same utility and the same data           *)
(* directory.  Inside one process storeUsageData runs without a break; the  *)
(* other process can read and write the files between its file operations.  *)
(* An invocation is [pc, body, usage_data, historical_data]: its position,  *)
(* the response it got, the batch it decoded and the array it loaded.       *)

\* the responses the two processes get: one reading each
RaceBodies ==
    { BodyOfPoints(<<point>>) :
        point \in { q \in Points : q.average = <<>> /\ DateParse(FullDate(q.label, 2025)[1]) # <<>> } }

\* the utility the two processes are configured for
RaceService == IF Configured("GAS") THEN "GAS" ELSE "ELECTRIC"

RaceInit ==
    /\ env \in StoreEnvs
    /\ files \in {initHistoryFiles(FreshFiles), EarlierFiles}
    /\ files0 = files
    /\ now = RunTime
    /\ pc = "concurrent"
    /\ browser = "open"
    /\ login = "ok"
    /\ portal = NoBody
    /\ results = [gas |-> NoResult, electric |-> NoResult]
    /\ stage = [gas |-> <<>>, electric |-> <<>>]
    /\ exitCode = <<>>
    /\ reply = NoReply
    /\ request = NoRequest
    /\ invocations \in [1..2 -> [pc : {"fetched"}, body : RaceBodies,
                                 usage_data : {<<>>}, historical_data : {<<>>}]]

\* a write that merges the batch into the file as it is at the write
WrittenBackOnDisk(invocation, doc, serviceType, t) ==
    Reconciled(loadHistoricalData(doc), invocation.usage_data, serviceType, t)

\* the array storeUsageData writes back: the merge of the array it loaded,
\* whatever the file holds by now
WrittenBack(invocation, doc, serviceType, t) ==
    Reconciled(invocation.historical_data, invocation.usage_data, serviceType, t)

\* the raw write and the decoder (lines 372-378)
DecodeOf(i) ==
    /\ invocations[i].pc = "fetched"
    /\ files' = [files EXCEPT ![Prefix(RaceService)].raw = Doc(invocations[i].body)]
    /\ invocations' = [invocations EXCEPT
                          ![i].usage_data = Decoded(RaceService, invocations[i].body, now),
                          ![i].pc = "decoded"]
    /\ UNCHANGED <<env, files0, now, pc, browser, login, portal, results, stage, exitCode,
                   reply, request>>

\* let historical_data = this.loadHistoricalData(serviceType) (line 93)
Load(i) ==
    /\ invocations[i].pc = "decoded"
    /\ invocations' = [invocations EXCEPT
                          ![i].historical_data =
                              loadHistoricalData(files[Prefix(RaceService)].history),
                          ![i].pc = "loaded"]
    /\ UNCHANGED <<env, files, files0, now, pc, browser, login, portal, results, stage,
                   exitCode, reply, request>>

\* the merge in memory and fs.writeFileSync(filename, ...) (lines 96-148)
Write(i) ==
    /\ invocations[i].pc = "loaded"
    /\ files' = [files EXCEPT ![Prefix(RaceService)].history =
                    Doc(WrittenBack(invocations[i], @, RaceService, now))]
    /\ invocations' = [invocations EXCEPT ![i].pc = "stored"]
    /\ UNCHANGED <<env, files0, now, pc, browser, login, portal, results, stage, exitCode,
                   reply, request>>

\* this.exportForHomeAssistant(serviceType) (line 383), taken as one step
ExportOf(i) ==
    /\ invocations[i].pc = "stored"
    /\ files' = [files EXCEPT ![Prefix(RaceService)] =
                    exportForHomeAssistant(@, RaceService, now, "none").docs]
    /\ invocations' = [invocations EXCEPT ![i].pc = "done"]
    /\ UNCHANGED <<env, files0, now, pc, browser, login, portal, results, stage, exitCode,
                   reply, request>>

RaceNext ==
    \E i \in 1..2 : DecodeOf(i) \/ Load(i) \/ Write(i) \/ ExportOf(i)

RaceSpec == RaceInit /\ [][RaceNext]_vars

\* the dates of a series of records, and of a batch of readings
RecordDates(historical_data) ==
    { historical_data[k].date : k \in 1..Len(historical_data) }

ReadingDates(usage_data) == { usage_data[k].full_date : k \in 1..Len(usage_data) }

\* invocation i writes the history file in this step
Writes(i) == invocations[i].pc = "loaded" /\ invocations'[i].pc = "stored"

\* C22: the persisted store has no overlap protection: a process rewrites
\* the whole file from the array it loaded, so the file it leaves holds only
\* dates it loaded or dates of its own batch, whatever the other process
\* wrote since the load; a reading reconciled by one invocation can thus be
\* absent from the final history file.
C22_WholeFileRewrite ==
    [][\A i \in 1..2 :
          Writes(i) =>
              RecordDates(loadHistoricalData(files'[Prefix(RaceService)].history))
                  \subseteq (RecordDates(invocations[i].historical_data)
                               \cup ReadingDates(invocations[i].usage_data))]_vars

\* both invocations are done, one reconciled a reading of a date the other
\* did not deliver, and the final history lacks that date
C22_LostUpdate ==
    /\ \A i \in 1..2 : invocations[i].pc = "done"
    /\ \E i \in 1..2 :
          ReadingDates(invocations[i].usage_data)
              \ RecordDates(loadHistoricalData(files[Prefix(RaceService)].history)) # {}

----------------------------------------------------------------------------
(* Properties of the two utilities of one run (Spec) *)

\* the documents of the utility when fetch_once starts
AfterConstructor(p) ==
    IF valid_config /\ Configured(ServiceOf(p)) /\ files0[p].history.st = "absent"
    THEN [files0[p] EXCEPT !.history = Doc(<<>>)]
    ELSE files0[p]

\* the documents the pipeline of the utility leaves, given only its own
\* documents and the response to its own request
OwnOutcomes(p) ==
    { read_api(ServiceOf(p), AfterConstructor(p), body, now, fault).docs :
        body \in RunBodies, fault \in Faults }

\* the documents of the utility depend on nothing of the other utility
OwnInputsOnly(p) ==
    \/ files[p] = files0[p]
    \/ files[p] = AfterConstructor(p)
    \/ files[p] \in OwnOutcomes(p)

\* C23: the utilities share no mutable state: the documents of a utility
\* change only in the constructor and in its own pipeline (the gas pipeline
\* never creates or changes an electric document, the electric pipeline
\* never a gas document), and the documents its pipeline leaves are
\* determined by its own documents and its own response, so they are the
\* same whichever utility is processed first.
C23_NoSharedState ==
    /\ [][\A p \in Utilities :
            files'[p] # files[p] => (pc = "main" \/ pc = Response(ServiceOf(p)))]_vars
    /\ [](\A p \in Utilities : pc = After(ServiceOf(p)) => OwnInputsOnly(p))

\* both pipelines have written their documents in one run
C23_Witness ==
    /\ pc = "exited"
    /\ results.gas.success /\ results.electric.success
    /\ files.gas # files0.gas /\ files.electric # files0.electric
    /\ files.gas.raw # files.electric.raw

----------------------------------------------------------------------------
(* A run on a history file that holds entries (UnreadableSpec): the         *)
(* configured utility has a history of earlier runs and the views exported  *)
(* from it; the file is read and parsed at load time, or the read or the    *)
(* parse throws (loadHistoricalData then answers []); the later write       *)
(* succeeds.  The pipeline runs on one response.                            *)

\* the histories earlier runs left, by the days they hold
HeldStores(serviceType) ==
    { StoreOfDays(picked, serviceType) :
        picked \in {<<1>>, <<5>>, <<1, 5>>, <<2, 3, 5>>} }

\* the documents of the utility: the views of the store, and the history
\* file, which the load of this run can or cannot read
HeldDocs(serviceType) ==
    { [exportForHomeAssistant([FreshDocs EXCEPT !.history = Doc(store)],
                              serviceType, DayBefore, "none").docs
          EXCEPT !.history = [st |-> st, data |-> store]] :
        store \in HeldStores(serviceType), st \in {"ok", "unreadable"} }

UnreadableInit ==
    /\ env \in StoreEnvs
    /\ \E serviceType \in {"GAS", "ELECTRIC"} :
          /\ Configured(serviceType)
          /\ \E docs \in HeldDocs(serviceType) :
                files = [FreshFiles EXCEPT ![Prefix(serviceType)] = docs]
    /\ files0 = files
    /\ now = RunTime
    /\ pc = "scheduled"
    /\ browser = "none"
    /\ login = "none"
    /\ portal = NoBody
    /\ results = [gas |-> NoResult, electric |-> NoResult]
    /\ stage = [gas |-> <<>>, electric |-> <<>>]
    /\ exitCode = <<>>
    /\ reply = NoReply
    /\ request = NoRequest
    /\ invocations = NoInvocations

UnreadableSpec == UnreadableInit /\ [][DecodeNext]_vars

\* the entries the file holds on disk
OnDisk(doc) == IF doc.st = "absent" THEN <<>> ELSE doc.data

\* the entry is inside the retention window of the run and the batch has
\* no reading of its date
KeptApart(record, usage_data, t) ==
    /\ TimeAtLeast(DateParse(record.date), TwoYearsAgo(t))
    /\ record.date \notin BatchDates(usage_data)

\* every such entry of the file before the run is in the file after it
NothingLost(p) ==
    \A i \in 1..Len(OnDisk(files0[p].history)) :
        KeptApart(OnDisk(files0[p].history)[i], Batch(p), now) =>
            \E j \in 1..Len(OnDisk(files[p].history)) :
                OnDisk(files[p].history)[j] = OnDisk(files0[p].history)[i]

\* C24: reconciliation never loses history: every entry of the history
\* file on disk before storeUsageData whose date is inside the two-year
\* retention window and is not a date of the new batch is still in the file,
\* unchanged, after it, also when the file could not be read or parsed at
\* load time.
C24_NothingLost == \A p \in Utilities : Reconciling(p) => NothingLost(p)

\* the same for the runs whose load read and parsed the file
C24_ReadableNothingLost ==
    \A p \in Utilities :
        (Reconciling(p) /\ files0[p].history.st = "ok") => NothingLost(p)

\* the load failed on a file with the entry of 12/30/2024, the batch had a
\* reading of another day, and the file written holds the batch alone
C24_HistoryReplaced ==
    /\ Reconciling("gas")
    /\ files0.gas.history.st = "unreadable"
    /\ DatesOf(OnDisk(files0.gas.history)) = {FormatCivil(ExportDays[1])}
    /\ files.gas.history.st = "ok"
    /\ DatesOf(OnDisk(files.gas.history)) = BatchDates(Batch("gas"))
    /\ FormatCivil(ExportDays[1]) \notin BatchDates(Batch("gas"))

----------------------------------------------------------------------------
(* The readings of the requested range (RangeSpec): a run on a day around   *)
(* the turn of a year or a month sends its request, and the portal answers  *)
(* with the reading of one day of the range StartDate..EndDate, under the   *)
(* tick label M/D of that day or, for electric, as an interval reading.     *)

\* the days from StartDate to EndDate of the request
RangeOf(req) == DayOfDate(req.StartDate)..DayOfDate(req.EndDate)

\* the tick label of a day: M/D, without the year
TickLabel(c) == NumToStr(c.m) \o <<"/">> \o NumToStr(c.d)

\* the responses of the portal with the reading of one day of the range
RangeBodies(req) ==
    { BodyOfPoints(<<[label   |-> TickLabel(CivilFromDays(day)),
                      usage   |-> 2000,
                      average |-> <<>>]>>) : day \in RangeOf(req) }
        \cup (IF req.ServiceType = "ELECTRIC"
              THEN { XmlBody(<<[time    |-> day * TicksPerDay,
                                value   |-> 700,
                                quality |-> "ACTUAL"]>>) : day \in RangeOf(req) }
              ELSE {})

\* read_*_api from the response on
Answered(serviceType) ==
    /\ stage[Prefix(serviceType)] = <<"Fetching">>
    /\ request.ServiceType = serviceType
    /\ \E body \in RangeBodies(request) :
          Ran(serviceType, body,
              read_api(serviceType, files[Prefix(serviceType)], body, now, "none"))
    /\ UNCHANGED <<invocations, request, reply, env, now, pc, browser, login, exitCode>>

RangeNext ==
    \E serviceType \in {"GAS", "ELECTRIC"} : Request(serviceType) \/ Answered(serviceType)

RangeSpec == WindowInit /\ [][RangeNext]_vars

\* the day of a record of the history
DayOfRecord(record) == DateParse(record.date)[1] \div TicksPerDay

\* the records of the history are of days of the requested range
InsideRange(p) ==
    \A i \in 1..Len(History(p)) :
        /\ DateParse(History(p)[i].date) # <<>>
        /\ DayOfRecord(History(p)[i]) \in RangeOf(request)
        /\ DayOfRecord(History(p)[i]) <= now \div TicksPerDay

\* C25: every reading a run writes to the history has a date inside the
\* date range the run requested from the portal, and so none later than the
\* run date, for every run date, a run in early January whose range reaches
\* back into December of the year before included.
C25_InsideRequestedRange ==
    \A p \in Utilities : (Reconciling(p) /\ History(p) # <<>>) => InsideRange(p)

\* the same for the runs whose range lies in the year of the run, and for
\* the interval readings, which carry their year
C25_SameYearInsideRange ==
    \A p \in Utilities :
        (/\ Reconciling(p) /\ History(p) # <<>>
         /\ \/ CivilFromDays(DayOfDate(request.StartDate)).y = GetFullYear(now)
            \/ portal.json # "ok")
            => InsideRange(p)

\* the run of 01/02/2025 asked for 12/02/2024 to 01/01/2025, the portal
\* answered with the reading of 12/31, and the history has it under
\* 12/31/2025
C25_DecemberOfRunYear ==
    /\ now \div TicksPerDay = DaysFromCivil(2025, 1, 2)
    /\ Reconciling("gas")
    /\ portal.json = "ok"
    /\ portal.raw_data.TickSeries = <<<<<<"1", "2", "/", "3", "1">>>>>>
    /\ DatesOf(History("gas")) = {<<"1", "2", "/", "3", "1", "/", "2", "0", "2", "5">>}

----------------------------------------------------------------------------
(* Properties of the recorded outcome of a utility (Spec) *)

\* C26: a utility is recorded as successful, and so counts toward exit code
\* 0, only if the run decoded at least one reading for it and wrote its
\* history file; a response that parses as JSON without the usage series
\* never counts as a completed utility.
C26_SuccessMeansData ==
    \A p \in Utilities :
        results[p].success =>
            /\ results[p].data_points > 0
            /\ Reconciling(p)
            /\ files[p].history.st = "ok"

\* the only response of the run was a JSON object without series: nothing
\* was decoded, the gas history is as the constructor left it, and the run
\* exited 0 on the strength of the gas utility
C26_EmptyResponseCounts ==
    /\ pc = "exited" /\ exitCode = <<0>>
    /\ results.gas.success /\ results.gas.data_points = 0
    /\ ~results.electric.success
    /\ files.gas.raw.data = EmptyJsonBody
    /\ files.gas.history = AfterConstructor("gas").history

\* a utility recorded as failed has no data points counted
C26_FailureCountsNothing ==
    \A p \in Utilities : ~results[p].success => results[p].data_points = 0

----------------------------------------------------------------------------
(* Properties of the documents a failed pipeline leaves (Spec) *)

\* the pipeline of the utility ended Failed
EndedFailed(p) == stage[p] # <<>> /\ stage[p][Len(stage[p])] = "Failed"

\* the pipeline of the utility got as far as the decoder's output
Normalized(p) == \E k \in 1..Len(stage[p]) : stage[p][k] = "Normalizing"

\* C27: a utility's run is all-or-nothing on disk: when its pipeline ends
\* Failed at any stage, its raw snapshot, its history and its four views
\* are as they were when the pipeline started; no run leaves a new raw
\* snapshot or a new history next to the views of an earlier run.
C27_AllOrNothing ==
    \A p \in Utilities : EndedFailed(p) => files[p] = AfterConstructor(p)

\* a pipeline that failed before its raw write left every document alone
C27_FailedEarlyWritesNothing ==
    \A p \in Utilities :
        (EndedFailed(p) /\ ~Normalized(p)) => files[p] = AfterConstructor(p)

\* the gas pipeline failed in the export: the raw snapshot and the history
\* are those of this run, the latest document is the one of an earlier run
C27_NewHistoryOldViews ==
    /\ EndedFailed("gas")
    /\ files0.gas.history.st = "ok" /\ files0.gas.latest.st = "ok"
    /\ files.gas.raw # files0.gas.raw
    /\ files.gas.history # files0.gas.history
    /\ files.gas.latest = files0.gas.latest

====
